---------------------------- MODULE Spec2Model ----------------------------
(***************************************************************************)
(* Collection-progress bot (src/New/main.py): the paginated fetchers, the  *)
(* ownership reconciler, the token-universe and ownership caches, the      *)
(* three paginated views and the persisted session; and the dice service   *)
(* (src/New/dice-app/backend/app/dice.py).                                 *)
(*                                                                         *)
(* Conventions of the model                                                *)
(*   - a Python str is a sequence of character codes (Str(41) = "41");     *)
(*   - a collection id is the integer its decimal string denotes; 0 is     *)
(*     the absent id (None or "");                                         *)
(*   - a wallet address is a string; "" is the absent address (None);      *)
(*   - an optional dict (dict.get(k) that may be None or {}) is a sequence *)
(*     of length at most one: <<>> is None/{} and <<d>> is the dict d;     *)
(*   - a cursor is a natural number naming an upstream page; 0 is None.    *)
(*                                                                         *)
(* Specifications                                                          *)
(*   SpecFetch   one paginated fetch, a loop iteration a step;             *)
(*   SpecCache   the two caches under gets, refreshes, time and failures;  *)
(*   SpecSelect  linking, selecting a collection and the ownership cache;  *)
(*   Spec        the three views, their buttons, /start and restarts;      *)
(*   SpecBack    the ways into the progress view and back out of it;       *)
(*   SpecClose   the Close buttons of the last and of older messages;      *)
(*   SpecText    one call of filter_ids or of the progress text;           *)
(*   SpecReconcile  one call of a reconciler on a wallet's records;        *)
(*   SpecSort    one call of sort_token_ids;                               *)
(*   SpecUniverse  one call of the cached token-universe fetch;            *)
(*   SpecSearch  one search of the name index;                             *)
(*   SpecSnapshot  two users in the progress view, tasks and the ledger;   *)
(*   SpecOverlap  refresh tasks stepped a request at a time;               *)
(*   SpecUserFair  a refresh task under the user's actions, with fairness; *)
(*   SpecEmpty   selections of a collection without tokens, restarts;      *)
(*   SpecRender  one call of a renderer on any page index;                 *)
(*   SpecReply   one call of safe_reply on lines of any lengths;           *)
(*   SpecRelink  linking another wallet while the ownership is cached;     *)
(*   SpecShared  two users, their sessions and the shared name table;      *)
(*   SpecDice    the /roll requests of the dice service, interleaved.      *)
(***************************************************************************)
EXTENDS Integers, Sequences, FiniteSets, TLC

(* ------------------------------ bounds --------------------------------- *)
\* most pages an upstream listing of the fetch specification has
MaxPages == 3
\* most upstream requests one fetch of the fetch specification may issue
MaxRequests == 4
\* small page cap the fetch specification also runs get_collection_token_ids with
SmallCap == 3

(* ------------------------- program constants --------------------------- *)
PAGE_SIZE == 8
OWNED_PAGE_SIZE == 10
PROGRESS_PAGE_SIZE == 20
OWNED_MAX_AGE == 300
TOKEN_CACHE_MAX_AGE == 1800
PAGE_CAP == 20000
MAX_CHUNK == 3500

VARIABLES
  \* --- fetch specification: one paginated fetch, one loop iteration a step
  f_kind,      \* which fetcher runs: "accounts", "owned_map" or "tokens"
  f_up,        \* the upstream listing: a sequence of pages
  f_cap,       \* page_cap of get_collection_token_ids
  f_st,        \* the loop's locals: after, accumulator, status, request log
  \* --- process-wide caches and their environment
  TOKEN_CACHE, \* cid -> optional [ids, ts]
  OWNED_CACHE, \* uid -> optional [ts, owned]
  now,         \* time.time()
  epoch,       \* which snapshot of the upstream ledger is current
  obs,         \* what the last cache operation returned and requested
  \* --- the bot: in-memory maps, files, per-user handler data
  USER_ADDRESS,    \* uid -> linked wallet address ("" when absent)
  USER_COLLECTION, \* uid -> selected collection id (0 when absent)
  State,           \* STATE["users"] of the source: uid -> optional session record
  file,            \* data/state.json as last written
  walletDb,        \* app.db users.wallet: uid -> address ("" when NULL)
  COLLECTION_DB,   \* collection.db: the ids of the rows added since the start
  user_data,       \* context.user_data: uid -> [find, owned, progress]
  tasks,           \* refresh_owned_cache tasks started and not yet completed
  pc,              \* uid -> where that user's running handler stands
  shown,           \* uid -> the view last rendered in the chat and not closed
  ack,             \* what the last handler was, sent and requested
  \* --- function specifications: one call of a function without effects
  p_call,      \* the function called and its arguments
  p_ret,       \* what it returned (empty until it has)
  \* --- the dice service: the tables of dice.db, the clock, the requests
  rolls,          \* rows of rolls (with the key of the request that wrote the row)
  last_created,   \* uid -> MAX(created_at) of the rolls of uid (empty without rolls)
  roll_requests,  \* rows of roll_requests
  daily_totals,   \* rows of daily_totals
  weekly_totals,  \* rows of weekly_totals
  utc,            \* the clock: seconds, and the UTC day
  roll_calls      \* the /roll requests in progress and their answers

fetchVars == <<f_kind, f_up, f_cap, f_st>>
cacheVars == <<TOKEN_CACHE, OWNED_CACHE, now, epoch, obs>>
navVars == <<USER_ADDRESS, USER_COLLECTION, State, file, walletDb, COLLECTION_DB,
             user_data, tasks, pc, shown, ack>>
callVars == <<p_call, p_ret>>
diceVars == <<rolls, last_created, roll_requests, daily_totals, weekly_totals, utc, roll_calls>>
vars == <<f_kind, f_up, f_cap, f_st, TOKEN_CACHE, OWNED_CACHE, now, epoch, obs,
          USER_ADDRESS, USER_COLLECTION, State, file, walletDb, COLLECTION_DB,
          user_data, tasks, pc, shown, ack, p_call, p_ret,
          rolls, last_created, roll_requests, daily_totals, weekly_totals, utc, roll_calls>>

Users == {1, 2}

(* ------------------------------ strings -------------------------------- *)
RECURSIVE Str(_)
\* str(n) of a natural number: its decimal digits as character codes
Str(n) == IF n < 10 THEN <<48 + n>> ELSE Str(n \div 10) \o <<48 + (n % 10)>>

\* int(x or 0) of an optional numeric field (absent or null is <<>>)
IntOr0(opt) == IF opt = <<>> THEN 0 ELSE opt[1]

(* ------------------------- upstream ledger API ------------------------- *)
\* A listing is a sequence of pages [edges, hasNextPage, endCursor]; the
\* cursor k names page k, and a request with after = None gets page 1.
Respond(up, after) == IF after = 0 THEN up[1] ELSE up[after]

\* enjin_graphql / enjin_graphql_async: the k-th request of a fetch raises
\* when the upstream fails at that request (failAt = k), else returns data.
enjin_graphql(up, after, k, failAt) ==
  IF k = failAt THEN [ok |-> FALSE] ELSE [ok |-> TRUE, data |-> Respond(up, after)]

(* ---------------------------- the fetchers ----------------------------- *)
\* AddHolding with the reserved balance left out of the test
AddHoldingBalanceOnly(owned, n) ==
  IF IntOr0(n.balance) > 0
  THEN LET cid == n.collectionId
           tid == Str(n.tokenId)
       IN IF cid \in DOMAIN owned
          THEN [owned EXCEPT ![cid] = @ \cup {tid}]
          ELSE owned @@ (cid :> {tid})
  ELSE owned
\* the ownership predicate and the insertion of one holding record
AddHolding(owned, n) ==
  IF IntOr0(n.balance) + IntOr0(n.reservedBalance) > 0
  THEN LET cid == n.collectionId
           tid == Str(n.tokenId)
       IN IF cid \in DOMAIN owned
          THEN [owned EXCEPT ![cid] = @ \cup {tid}]
          ELSE owned @@ (cid :> {tid})
  ELSE owned

RECURSIVE AddHoldings(_, _)
AddHoldings(owned, edges) ==
  IF edges = <<>> THEN owned
  ELSE AddHoldings(AddHolding(owned, Head(edges)), Tail(edges))

EmptyMap == [c \in {} |-> {}]

\* locals of a fetch loop before its first iteration
FetchStart == [after |-> 0, acc |-> <<>>, owned |-> EmptyMap, n |-> 0,
               reqs |-> <<>>, status |-> "run"]

\* AccountsStep with the hasNextPage test placed before edges.extend
AccountsStepBreakFirst(st, up, failAt) ==
  LET r == enjin_graphql(up, st.after, st.n + 1, failAt)
      sent == [st EXCEPT !.n = @ + 1, !.reqs = Append(@, st.after)]
  IN IF ~r.ok THEN [sent EXCEPT !.status = "error"]
     ELSE LET d == r.data
          IN IF ~d.hasNextPage
             THEN [sent EXCEPT !.status = "done"]
             ELSE [sent EXCEPT !.acc = st.acc \o d.edges, !.after = d.endCursor]

\* one iteration of the loop of fetch_all_token_accounts
AccountsStep(st, up, failAt) ==
  LET r == enjin_graphql(up, st.after, st.n + 1, failAt)
      sent == [st EXCEPT !.n = @ + 1, !.reqs = Append(@, st.after)]
  IN IF ~r.ok THEN [sent EXCEPT !.status = "error"]
     ELSE LET d == r.data
              edges == st.acc \o d.edges
          IN IF ~d.hasNextPage
             THEN [sent EXCEPT !.acc = edges, !.status = "done"]
             ELSE [sent EXCEPT !.acc = edges, !.after = d.endCursor]

\* OwnedMapStep that starts an empty map on every page
OwnedMapStepPerPage(st, up, failAt) ==
  LET r == enjin_graphql(up, st.after, st.n + 1, failAt)
      sent == [st EXCEPT !.n = @ + 1, !.reqs = Append(@, st.after)]
  IN IF ~r.ok THEN [sent EXCEPT !.status = "error"]
     ELSE LET ta == r.data
              owned == AddHoldings(EmptyMap, ta.edges)
          IN IF ~ta.hasNextPage
             THEN [sent EXCEPT !.owned = owned, !.status = "done"]
             ELSE [sent EXCEPT !.owned = owned, !.after = ta.endCursor]
\* one iteration of the loop of _fetch_owned_map
OwnedMapStep(st, up, failAt) ==
  LET r == enjin_graphql(up, st.after, st.n + 1, failAt)
      sent == [st EXCEPT !.n = @ + 1, !.reqs = Append(@, st.after)]
  IN IF ~r.ok THEN [sent EXCEPT !.status = "error"]
     ELSE LET ta == r.data
              owned == AddHoldings(st.owned, ta.edges)
          IN IF ~ta.hasNextPage
             THEN [sent EXCEPT !.owned = owned, !.status = "done"]
             ELSE [sent EXCEPT !.owned = owned, !.after = ta.endCursor]

\* str(edge["node"]["tokenId"]) for every edge of a page
TokenIdsOf(edges) == [i \in 1..Len(edges) |-> Str(edges[i].tokenId)]

\* one iteration of the loop of get_collection_token_ids
TokensStep(st, up, failAt, page_cap) ==
  LET r == enjin_graphql(up, st.after, st.n + 1, failAt)
      sent == [st EXCEPT !.n = @ + 1, !.reqs = Append(@, st.after)]
  IN IF ~r.ok THEN [sent EXCEPT !.status = "error"]
     ELSE LET d == r.data
              out == st.acc \o TokenIdsOf(d.edges)
          IN IF ~d.hasNextPage \/ Len(out) >= page_cap
             THEN [sent EXCEPT !.acc = out, !.status = "done"]
             ELSE [sent EXCEPT !.acc = out, !.after = d.endCursor]

RECURSIVE AccountsLoop(_, _, _)
AccountsLoop(st, up, failAt) ==
  IF st.status # "run" THEN st ELSE AccountsLoop(AccountsStep(st, up, failAt), up, failAt)

RECURSIVE OwnedMapLoop(_, _, _)
OwnedMapLoop(st, up, failAt) ==
  IF st.status # "run" THEN st ELSE OwnedMapLoop(OwnedMapStep(st, up, failAt), up, failAt)

RECURSIVE TokensLoop(_, _, _, _)
TokensLoop(st, up, failAt, page_cap) ==
  IF st.status # "run" THEN st
  ELSE TokensLoop(TokensStep(st, up, failAt, page_cap), up, failAt, page_cap)


(* -------------------------- the upstream ledger ------------------------ *)
\* token nodes b, b-1, ..., a (the upstream lists in no useful order)
NodesDown(a, b) == [i \in 1..(b - a + 1) |-> [tokenId |-> b - i + 1]]

\* a listing of two pages in cursor order, or of one when the second is empty
TwoPages(e1, e2) ==
  <<[edges |-> e1, hasNextPage |-> TRUE, endCursor |-> 2],
    [edges |-> e2, hasNextPage |-> FALSE, endCursor |-> 0]>>
OnePage(e1) == <<[edges |-> e1, hasNextPage |-> FALSE, endCursor |-> 0]>>

\* the tokens of collection cid in ledger snapshot ep: collection 1 has 21
\* tokens, 20 after the change; collection 2 has none; any other has one
TokenListing(ep, cid) ==
  IF cid = 1
  THEN (IF ep = 0 THEN TwoPages(NodesDown(11, 21), NodesDown(1, 10))
        ELSE TwoPages(NodesDown(11, 20), NodesDown(1, 10)))
  ELSE IF cid = 2 THEN OnePage(<<>>)
  ELSE OnePage(NodesDown(1, 1))

Holding(cid, tid, bal, res) ==
  [tokenId |-> tid, collectionId |-> cid, balance |-> bal, reservedBalance |-> res]

\* the token accounts of a wallet in ledger snapshot ep: wallet wA holds
\* tokens 3 and 7 of collection 1, a record of balance zero for token 5,
\* and one token in each of collections 3..12, in either snapshot
AccountListing(ep, addr) ==
  IF addr = "wA"
  THEN TwoPages(<<Holding(1, 3, <<1>>, <<0>>), Holding(1, 5, <<0>>, <<>>)>>
                  \o [i \in 1..4 |-> Holding(2 + i, 1, <<1>>, <<0>>)],
                <<Holding(1, 7, <<>>, <<1>>)>>
                  \o [i \in 1..6 |-> Holding(6 + i, 1, <<2>>, <<>>)])
  ELSE TwoPages(<<Holding(1, 1, <<1>>, <<0>>)>>, <<Holding(3, 1, <<0>>, <<1>>)>>)

Epochs == {0, 1}
Wallets == {"wA", "wB"}
Cids == 1..12
\* the request at which the upstream fails: 0 is never
FailPoints == {0, 1, 2}

\* The fetchers on the listings of the ledger, tabulated once: the loops
\* below are run for each listing and each failure point when the module
\* is loaded, and a call on one of these listings reads the table.
TokenFetchTable ==
  [k \in {<<TokenListing(ep, c), fa>> : ep \in Epochs, c \in Cids, fa \in FailPoints}
     |-> TokensLoop(FetchStart, k[1], k[2], PAGE_CAP)]
AccountFetchTable ==
  [k \in {<<AccountListing(ep, a), fa>> : ep \in Epochs, a \in Wallets, fa \in FailPoints}
     |-> AccountsLoop(FetchStart, k[1], k[2])]
OwnedFetchTable ==
  [k \in {<<AccountListing(ep, a), fa>> : ep \in Epochs, a \in Wallets, fa \in FailPoints}
     |-> OwnedMapLoop(FetchStart, k[1], k[2])]

\* the three fetchers, run to their end: status "done" (returned) or
\* "error" (raised), with the accumulator they had at that point
fetch_all_token_accounts(up, failAt) ==
  IF <<up, failAt>> \in DOMAIN AccountFetchTable THEN AccountFetchTable[<<up, failAt>>]
  ELSE AccountsLoop(FetchStart, up, failAt)
fetch_owned_map(up, failAt) ==
  IF <<up, failAt>> \in DOMAIN OwnedFetchTable THEN OwnedFetchTable[<<up, failAt>>]
  ELSE OwnedMapLoop(FetchStart, up, failAt)
get_collection_token_ids(up, failAt, page_cap) ==
  IF page_cap = PAGE_CAP /\ <<up, failAt>> \in DOMAIN TokenFetchTable
  THEN TokenFetchTable[<<up, failAt>>]
  ELSE TokensLoop(FetchStart, up, failAt, page_cap)

(* ------------------------------ sorting -------------------------------- *)
\* s.isdigit(), for the ASCII strings of the model
IsDigit(s) == Len(s) > 0 /\ \A i \in 1..Len(s) : s[i] \in 48..57

RECURSIVE IntOf(_)
\* int(s) of a digit string
IntOf(s) == IF s = <<>> THEN 0 ELSE 10 * IntOf(SubSeq(s, 1, Len(s) - 1)) + (s[Len(s)] - 48)

RECURSIVE StrLess(_, _)
\* a < b of two Python strings (code point order, a proper prefix first)
StrLess(a, b) ==
  IF b = <<>> THEN FALSE
  ELSE IF a = <<>> THEN TRUE
  ELSE IF Head(a) # Head(b) THEN Head(a) < Head(b)
  ELSE StrLess(Tail(a), Tail(b))

\* the keys compared as plain strings
KeyLessByText(a, b) == StrLess(a, b)
\* keyfn(a) < keyfn(b), keyfn(s) = (0, int(s)) if s.isdigit() else (1, s)
KeyLess(a, b) ==
  IF IsDigit(a) /\ IsDigit(b) THEN IntOf(a) < IntOf(b)
  ELSE IF IsDigit(a) THEN TRUE
  ELSE IF IsDigit(b) THEN FALSE
  ELSE StrLess(a, b)

\* x put into the sorted list srt behind every element whose key is not greater
InsertByKey(srt, x) ==
  LET p == Cardinality({i \in 1..Len(srt) : ~KeyLess(x, srt[i])})
  IN SubSeq(srt, 1, p) \o <<x>> \o SubSeq(srt, p + 1, Len(srt))

RECURSIVE SortedByKey(_)
\* sorted(ids, key=keyfn): a stable sort
SortedByKey(ids) ==
  IF ids = <<>> THEN <<>>
  ELSE InsertByKey(SortedByKey(SubSeq(ids, 1, Len(ids) - 1)), ids[Len(ids)])

\* the sort of every list a token fetch on the ledger returns, tabulated once
SortTable ==
  [l \in {TokenFetchTable[k].acc : k \in DOMAIN TokenFetchTable} |-> SortedByKey(l)]

sort_token_ids(ids) == IF ids \in DOMAIN SortTable THEN SortTable[ids] ELSE SortedByKey(ids)

(* ------------------------------- caches -------------------------------- *)
\* the freshness test of get_collection_token_ids_cached, with <= for <
TokenCacheHitInclusive(ent, t, max_age_sec, force) ==
  (~force) /\ ent # <<>> /\ (t - ent[1].ts <= max_age_sec)

\* (not force) and ent and (now - ent.get("ts", 0) < max_age_sec)
TokenCacheHit(ent, t, max_age_sec, force) ==
  (~force) /\ ent # <<>> /\ (t - ent[1].ts < max_age_sec)

\* get_collection_token_ids_cached that keeps what a failed fetch had gathered
get_collection_token_ids_cached_partial(cache, t, cid, max_age_sec, force, up, failAt) ==
  LET ent == cache[cid]
  IN IF TokenCacheHit(ent, t, max_age_sec, force)
     THEN [cache |-> cache, ok |-> TRUE, ids |-> ent[1].ids, nreq |-> 0]
     ELSE LET f == get_collection_token_ids(up, failAt, PAGE_CAP)
              ids_sorted == sort_token_ids(f.acc)
          IN [cache |-> [cache EXCEPT ![cid] = <<[ids |-> ids_sorted, ts |-> t]>>],
              ok |-> f.status = "done", ids |-> ids_sorted, nreq |-> f.n]

\* get_collection_token_ids_cached called at time t against the listing up:
\* the cache afterwards, whether it returned (ok) or raised, the list
\* returned and the number of upstream requests issued
get_collection_token_ids_cached(cache, t, cid, max_age_sec, force, up, failAt) ==
  LET ent == cache[cid]
  IN IF TokenCacheHit(ent, t, max_age_sec, force)
     THEN [cache |-> cache, ok |-> TRUE, ids |-> ent[1].ids, nreq |-> 0]
     ELSE LET f == get_collection_token_ids(up, failAt, PAGE_CAP)
          IN IF f.status = "error"
             THEN [cache |-> cache, ok |-> FALSE, ids |-> <<>>, nreq |-> f.n]
             ELSE LET ids_sorted == sort_token_ids(f.acc)
                  IN [cache |-> [cache EXCEPT ![cid] = <<[ids |-> ids_sorted, ts |-> t]>>],
                      ok |-> TRUE, ids |-> ids_sorted, nreq |-> f.n]

\* _owned_cache_get: the cached map as an optional value
owned_cache_get(cache, t, uid) ==
  LET ent == cache[uid]
  IN IF ent # <<>> /\ (t - ent[1].ts < OWNED_MAX_AGE) THEN <<ent[1].owned>> ELSE <<>>

\* _owned_cache_put that keeps an entry already there
OwnedCachePutIfAbsent(cache, t, uid, owned_map) ==
  IF cache[uid] # <<>> THEN cache
  ELSE [cache EXCEPT ![uid] = <<[ts |-> t, owned |-> owned_map]>>]
\* _owned_cache_put
owned_cache_put(cache, t, uid, owned_map) ==
  [cache EXCEPT ![uid] = <<[ts |-> t, owned |-> owned_map]>>]

\* refresh_owned_cache finishing at time t: the cache afterwards, whether
\* it returned or raised, and the map returned
refresh_owned_cache(cache, t, uid, up, failAt) ==
  LET f == fetch_owned_map(up, failAt)
  IN IF f.status = "error"
     THEN [cache |-> cache, ok |-> FALSE, owned |-> EmptyMap, nreq |-> f.n]
     ELSE [cache |-> owned_cache_put(cache, t, uid, f.owned), ok |-> TRUE,
           owned |-> f.owned, nreq |-> f.n]

\* get_wallet_owned_by_collection: the reconciled map, or the failure
get_wallet_owned_by_collection(up, failAt) ==
  LET f == fetch_all_token_accounts(up, failAt)
  IN IF f.status = "error"
     THEN [ok |-> FALSE, owned |-> EmptyMap, nreq |-> f.n]
     ELSE [ok |-> TRUE, owned |-> AddHoldings(EmptyMap, f.acc), nreq |-> f.n]

(* ----------------------- the cache specification ----------------------- *)
CacheCids == {1, 2}
CacheTimes == {0, OWNED_MAX_AGE, TOKEN_CACHE_MAX_AGE - 1, TOKEN_CACHE_MAX_AGE}
CacheMaxAges == {0, OWNED_MAX_AGE, TOKEN_CACHE_MAX_AGE}
NoObs == [op |-> "init", u |-> 0, cid |-> 0, arg |-> <<>>, ok |-> TRUE, hit |-> FALSE,
          val |-> <<>>, nreq |-> 0]

\* what the ledger holds, stated directly: the token ids of a collection in
\* ascending order, and the tokens a wallet holds with a positive balance
UniverseSize(ep, cid) == IF cid = 1 THEN (IF ep = 0 THEN 21 ELSE 20)
                         ELSE IF cid = 2 THEN 0 ELSE 1
UniverseOf(ep, cid) == [i \in 1..UniverseSize(ep, cid) |-> Str(i)]
HoldingsOf(ep, addr) ==
  IF addr = "wA"
  THEN [c \in {1} \cup (3..12) |-> IF c = 1 THEN {Str(3), Str(7)} ELSE {Str(1)}]
  ELSE [c \in {1, 3} |-> {Str(1)}]

CacheInit ==
  /\ TOKEN_CACHE = [c \in CacheCids |-> <<>>]
  /\ OWNED_CACHE = [u \in Users |-> <<>>]
  /\ now = 0
  /\ epoch = 0
  /\ obs = NoObs

\* the bot right after the process started on an empty data directory
NoAck == [op |-> "none", u |-> 0, cid |-> 0, notice |-> "", track |-> 0, tokreq |-> 0,
          walreq |-> 0, hit |-> FALSE, bg |-> FALSE]
NoViews == [find |-> <<>>, owned |-> <<>>, progress |-> <<>>]
NavInit ==
  /\ USER_ADDRESS = [u \in Users |-> ""]
  /\ USER_COLLECTION = [u \in Users |-> 0]
  /\ State = [u \in Users |-> <<>>]
  /\ file = [u \in Users |-> <<>>]
  /\ walletDb = [u \in Users |-> ""]
  /\ COLLECTION_DB = {}
  /\ user_data = [u \in Users |-> NoViews]
  /\ tasks = {}
  /\ pc = [u \in Users |-> "idle"]
  /\ shown = [u \in Users |-> <<>>]
  /\ ack = NoAck

(* ---------------------------- the dice service --------------------------- *)
\* POST /roll of the dice service (dice-app/backend/app/dice.py roll_dice; the
\* same code serves /roll in main.py as dice_roll).  roll_dice is a plain
\* function, which the server runs on a thread of its pool: the requests in
\* progress interleave between any two of their statements.  A step of this
\* specification is one request going from one access of dice.db to its next.

\* MAX_DAILY the service runs with (the environment variable MAX_DAILY)
MaxDaily == 2
\* UTC days the clock goes through
MaxDays == 2
\* cooldown periods the clock goes through
MaxTicks == 2
\* /roll requests in progress at once
MaxCalls == 2

COOLDOWN_S == 4

DiceUsers == {1}
\* X-Idempotency-Key: "" when the header is absent
IdemKeys == {"", "k"}
\* two of the throws random.randint(1, 6) gives the two dice
Throws == {<<1, 2>>, <<6, 6>>}

NoRollCall == [pc |-> "idle"]

DiceIdle ==
  /\ rolls = {}
  /\ last_created = [u \in DiceUsers |-> <<>>]
  /\ roll_requests = {}
  /\ daily_totals = {}
  /\ weekly_totals = {}
  /\ utc = [clock |-> 0, day |-> 1]
  /\ roll_calls = [i \in 1..MaxCalls |-> NoRollCall]

today_utc_str(t) == t.day
\* the model's days lie in one ISO week
week_id(t) == 1

rolls_used_today(R, user_id, t) ==
  Cardinality({r \in R : r.telegram_id = user_id /\ r.date_utc = today_utc_str(t)})

\* now minus MAX(created_at) over the rolls of the user; 10000 without rolls
seconds_since_last_roll(L, user_id, t) ==
  IF L[user_id] = <<>> THEN 10000 ELSE t.clock - L[user_id][1]

\* json.dumps of a response dict and json.loads of the text stored
Dumps(resp) == <<resp.d1, resp.d2, resp.total, resp.roll_index, resp.rolls_left,
                 resp.daily_limit>>
Loads(j) == [d1 |-> j[1], d2 |-> j[2], total |-> j[3], roll_index |-> j[4],
             rolls_left |-> j[5], daily_limit |-> j[6]]

get_idempo(Q, user_id, key) ==
  LET hit == {q \in Q : q.telegram_id = user_id /\ q.key = key}
  IN IF hit = {} THEN <<>> ELSE <<Loads((CHOOSE q \in hit : TRUE).response_json)>>

\* INSERT OR IGNORE under UNIQUE(telegram_id, key)
save_idempo(Q, user_id, key, resp) ==
  IF \E q \in Q : q.telegram_id = user_id /\ q.key = key THEN Q
  ELSE Q \cup {[telegram_id |-> user_id, key |-> key, response_json |-> Dumps(resp)]}

\* the two upserts of upsert_daily_and_weekly
UpsertDaily(D, user_id, tday, add_total) ==
  IF \E d \in D : d.telegram_id = user_id /\ d.date_utc = tday
  THEN {IF d.telegram_id = user_id /\ d.date_utc = tday
        THEN [d EXCEPT !.total_score = @ + add_total, !.rolls_count = @ + 1]
        ELSE d : d \in D}
  ELSE D \cup {[telegram_id |-> user_id, date_utc |-> tday, total_score |-> add_total,
                rolls_count |-> 1]}
UpsertWeekly(W, user_id, wk, add_total) ==
  IF \E w \in W : w.telegram_id = user_id /\ w.week_id = wk
  THEN {IF w.telegram_id = user_id /\ w.week_id = wk
        THEN [w EXCEPT !.total_score = @ + add_total] ELSE w : w \in W}
  ELSE W \cup {[telegram_id |-> user_id, week_id |-> wk, total_score |-> add_total,
                days_played |-> 0]}

\* the request has its answer: status code and body
Answered(c, status, body) ==
  [pc |-> "done", uid |-> c.uid, key |-> c.key, status |-> status, body |-> body]

\* a request arrives: _resolve_user_id and the header
Arrive(i, u, k) ==
  /\ roll_calls[i].pc = "idle"
  /\ roll_calls' = [roll_calls EXCEPT ![i] = [pc |-> "idem", uid |-> u, key |-> k]]
  /\ UNCHANGED <<rolls, last_created, roll_requests, daily_totals, weekly_totals, utc>>

\* the stored response of the key, when there is one
StepIdem(i) ==
  LET c == roll_calls[i]
      prev == get_idempo(roll_requests, c.uid, c.key)
  IN /\ c.pc = "idem"
     /\ roll_calls' = [roll_calls EXCEPT ![i] =
                         IF c.key # "" /\ prev # <<>> THEN Answered(c, 200, prev[1])
                         ELSE [c EXCEPT !.pc = "cooldown"]]
     /\ UNCHANGED <<rolls, last_created, roll_requests, daily_totals, weekly_totals, utc>>

\* the cooldown test; seconds_remaining in tenths of a second
StepCooldown(i) ==
  LET c == roll_calls[i]
      since == seconds_since_last_roll(last_created, c.uid, utc)
  IN /\ c.pc = "cooldown"
     /\ roll_calls' = [roll_calls EXCEPT ![i] =
                         IF since < COOLDOWN_S
                         THEN Answered(c, 429, [error |-> "COOLDOWN_ACTIVE",
                                                seconds_remaining |-> (COOLDOWN_S - since) * 10])
                         ELSE [c EXCEPT !.pc = "limit"]]
     /\ UNCHANGED <<rolls, last_created, roll_requests, daily_totals, weekly_totals, utc>>

\* the daily limit test
StepLimit(i) ==
  LET c == roll_calls[i]
      used == rolls_used_today(rolls, c.uid, utc)
  IN /\ c.pc = "limit"
     /\ roll_calls' = [roll_calls EXCEPT ![i] =
                         IF used >= MaxDaily
                         THEN Answered(c, 400, [error |-> "DAILY_LIMIT_REACHED",
                                                daily_limit |-> MaxDaily])
                         ELSE [pc |-> "insert", uid |-> c.uid, key |-> c.key, used |-> used]]
     /\ UNCHANGED <<rolls, last_created, roll_requests, daily_totals, weekly_totals, utc>>

\* an insert into a rolls table without its UNIQUE constraint
InsertRollNoUnique(R, row) == [ok |-> TRUE, rolls |-> R \cup {row}]
\* INSERT INTO rolls under UNIQUE(telegram_id, date_utc, roll_index): a row
\* with the index of a row that is there raises, and the request ends with
\* status 500.  The key of the row is not a column: it records which
\* request wrote it.
InsertRoll(R, row) ==
  IF \E r \in R : r.telegram_id = row.telegram_id /\ r.date_utc = row.date_utc
                    /\ r.roll_index = row.roll_index
  THEN [ok |-> FALSE, rolls |-> R]
  ELSE [ok |-> TRUE, rolls |-> R \cup {row}]

\* the dice, the index, the day and the insert
StepInsert(i, d1, d2) ==
  LET c == roll_calls[i]
      idx == c.used + 1
      tday == today_utc_str(utc)
      ins == InsertRoll(rolls, [telegram_id |-> c.uid, date_utc |-> tday, roll_index |-> idx,
                                d1 |-> d1, d2 |-> d2, total |-> d1 + d2, key |-> c.key])
  IN /\ c.pc = "insert"
     /\ rolls' = ins.rolls
     /\ last_created' = IF ins.ok THEN [last_created EXCEPT ![c.uid] = <<utc.clock>>]
                        ELSE last_created
     /\ roll_calls' = [roll_calls EXCEPT ![i] =
                         IF ins.ok
                         THEN [pc |-> "totals", uid |-> c.uid, key |-> c.key, idx |-> idx,
                               d1 |-> d1, d2 |-> d2]
                         ELSE Answered(c, 500, [error |-> "IntegrityError"])]
     /\ UNCHANGED <<roll_requests, daily_totals, weekly_totals, utc>>

\* upsert_daily_and_weekly, on the day and the week of its own clock reading
StepTotals(i) ==
  LET c == roll_calls[i]
  IN /\ c.pc = "totals"
     /\ daily_totals' = UpsertDaily(daily_totals, c.uid, today_utc_str(utc), c.d1 + c.d2)
     /\ weekly_totals' = UpsertWeekly(weekly_totals, c.uid, week_id(utc), c.d1 + c.d2)
     /\ roll_calls' = [roll_calls EXCEPT ![i] = [c EXCEPT !.pc = "save"]]
     /\ UNCHANGED <<rolls, last_created, roll_requests, utc>>

\* the response, stored under the key when there is one, and returned
StepSave(i) ==
  LET c == roll_calls[i]
      resp == [d1 |-> c.d1, d2 |-> c.d2, total |-> c.d1 + c.d2, roll_index |-> c.idx,
               rolls_left |-> MaxDaily - c.idx, daily_limit |-> MaxDaily]
  IN /\ c.pc = "save"
     /\ roll_requests' = IF c.key # "" THEN save_idempo(roll_requests, c.uid, c.key, resp)
                         ELSE roll_requests
     /\ roll_calls' = [roll_calls EXCEPT ![i] = Answered(c, 200, resp)]
     /\ UNCHANGED <<rolls, last_created, daily_totals, weekly_totals, utc>>

\* the answer was delivered
Forget(i) ==
  /\ roll_calls[i].pc = "done"
  /\ roll_calls' = [roll_calls EXCEPT ![i] = NoRollCall]
  /\ UNCHANGED <<rolls, last_created, roll_requests, daily_totals, weekly_totals, utc>>

\* a cooldown period passes
DiceTick ==
  /\ utc.clock < MaxTicks * COOLDOWN_S
  /\ utc' = [utc EXCEPT !.clock = @ + COOLDOWN_S]
  /\ UNCHANGED <<rolls, last_created, roll_requests, daily_totals, weekly_totals, roll_calls>>

\* midnight UTC passes
Midnight ==
  /\ utc.day < MaxDays
  /\ utc' = [utc EXCEPT !.day = @ + 1]
  /\ UNCHANGED <<rolls, last_created, roll_requests, daily_totals, weekly_totals, roll_calls>>

DiceArrive == \E i \in 1..MaxCalls, u \in DiceUsers, k \in IdemKeys : Arrive(i, u, k)
DiceIdem == \E i \in 1..MaxCalls : StepIdem(i)
DiceCooldown == \E i \in 1..MaxCalls : StepCooldown(i)
DiceLimit == \E i \in 1..MaxCalls : StepLimit(i)
DiceInsert == \E i \in 1..MaxCalls, t \in Throws : StepInsert(i, t[1], t[2])
DiceTotals == \E i \in 1..MaxCalls : StepTotals(i)
DiceSave == \E i \in 1..MaxCalls : StepSave(i)
DiceForget == \E i \in 1..MaxCalls : Forget(i)

\* every step of the service leaves the bot and the function calls alone
DiceNext ==
  \/ (DiceArrive /\ UNCHANGED <<fetchVars, cacheVars, navVars, callVars>>)
  \/ (DiceIdem /\ UNCHANGED <<fetchVars, cacheVars, navVars, callVars>>)
  \/ (DiceCooldown /\ UNCHANGED <<fetchVars, cacheVars, navVars, callVars>>)
  \/ (DiceLimit /\ UNCHANGED <<fetchVars, cacheVars, navVars, callVars>>)
  \/ (DiceInsert /\ UNCHANGED <<fetchVars, cacheVars, navVars, callVars>>)
  \/ (DiceTotals /\ UNCHANGED <<fetchVars, cacheVars, navVars, callVars>>)
  \/ (DiceSave /\ UNCHANGED <<fetchVars, cacheVars, navVars, callVars>>)
  \/ (DiceForget /\ UNCHANGED <<fetchVars, cacheVars, navVars, callVars>>)
  \/ (DiceTick /\ UNCHANGED <<fetchVars, cacheVars, navVars, callVars>>)
  \/ (Midnight /\ UNCHANGED <<fetchVars, cacheVars, navVars, callVars>>)

(* ------------------------ the cache specification ---------------------- *)
\* a caller of get_collection_token_ids_cached
TokenGet(cid, max_age_sec, force, failAt) ==
  LET r == get_collection_token_ids_cached(TOKEN_CACHE, now, cid, max_age_sec, force,
                                           TokenListing(epoch, cid), failAt)
  IN /\ TOKEN_CACHE' = r.cache
     /\ obs' = [op |-> "token_get", u |-> 0, cid |-> cid, arg |-> <<max_age_sec, force>>,
                ok |-> r.ok,
                hit |-> TokenCacheHit(TOKEN_CACHE[cid], now, max_age_sec, force),
                val |-> r.ids, nreq |-> r.nreq]
     /\ UNCHANGED <<OWNED_CACHE, now, epoch>>

\* a caller of refresh_owned_cache
OwnedRefresh(uid, addr, failAt) ==
  LET r == refresh_owned_cache(OWNED_CACHE, now, uid, AccountListing(epoch, addr), failAt)
  IN /\ OWNED_CACHE' = r.cache
     /\ obs' = [op |-> "owned_refresh", u |-> uid, cid |-> 0, arg |-> <<addr>>,
                ok |-> r.ok, hit |-> FALSE,
                val |-> <<r.owned>>, nreq |-> r.nreq]
     /\ UNCHANGED <<TOKEN_CACHE, now, epoch>>

\* a caller of _owned_cache_get
OwnedGet(uid) ==
  /\ obs' = [op |-> "owned_get", u |-> uid, cid |-> 0, arg |-> <<>>, ok |-> TRUE,
             hit |-> owned_cache_get(OWNED_CACHE, now, uid) # <<>>,
             val |-> owned_cache_get(OWNED_CACHE, now, uid), nreq |-> 0]
  /\ UNCHANGED <<TOKEN_CACHE, OWNED_CACHE, now, epoch>>

\* time passes
CacheTick ==
  /\ \E t \in CacheTimes : t > now /\ now' = t
  /\ UNCHANGED <<TOKEN_CACHE, OWNED_CACHE, epoch, obs>>

\* the ledger changes: tokens are burned
LedgerChange ==
  /\ epoch = 0 /\ epoch' = 1
  /\ UNCHANGED <<TOKEN_CACHE, OWNED_CACHE, now, obs>>

CacheTokenGet == \E cid \in CacheCids, m \in CacheMaxAges, force \in BOOLEAN, fa \in FailPoints :
                   TokenGet(cid, m, force, fa)
CacheOwnedRefresh == \E fa \in FailPoints : OwnedRefresh(1, "wA", fa)
CacheOwnedGet == OwnedGet(1)

CacheNext ==
  \/ (CacheTokenGet /\ UNCHANGED <<fetchVars, diceVars, callVars, navVars>>)
  \/ (CacheOwnedRefresh /\ UNCHANGED <<fetchVars, diceVars, callVars, navVars>>)
  \/ (CacheOwnedGet /\ UNCHANGED <<fetchVars, diceVars, callVars, navVars>>)
  \/ (CacheTick /\ UNCHANGED <<fetchVars, diceVars, callVars, navVars>>)
  \/ (LedgerChange /\ UNCHANGED <<fetchVars, diceVars, callVars, navVars>>)

FetchIdle ==
  /\ f_kind = "accounts" /\ f_up = OnePage(<<>>) /\ f_cap = PAGE_CAP /\ f_st = FetchStart

\* no function call is under study
NoCall == [fn |-> "none"]
CallIdle == p_call = NoCall /\ p_ret = <<>>

CacheSpecInit == CacheInit /\ FetchIdle /\ NavInit /\ DiceIdle /\ CallIdle

SpecCache == CacheSpecInit /\ [][CacheNext]_vars

(* ---------------------- the fetch specification ------------------------ *)
\* raw holding records the upstream listings of this specification hold
NodeA == [tokenId |-> 1, collectionId |-> 1, balance |-> <<1>>, reservedBalance |-> <<0>>]
NodeB == [tokenId |-> 2, collectionId |-> 1, balance |-> <<0>>, reservedBalance |-> <<>>]
NodeC == [tokenId |-> 1, collectionId |-> 2, balance |-> <<>>, reservedBalance |-> <<2>>]
\* the pages: one record, two records, or none (an empty page)
EdgeLists == {<<>>, <<NodeA>>, <<NodeB, NodeC>>}

Listings ==
  UNION {[1..L -> [edges : EdgeLists, hasNextPage : BOOLEAN, endCursor : 1..L]]
         : L \in 1..MaxPages}

FetchKinds == {"accounts", "owned_map", "tokens"}

FetchSpecInit ==
  /\ f_kind \in FetchKinds
  /\ f_up \in Listings
  /\ f_cap \in {SmallCap, PAGE_CAP}
  /\ f_st = FetchStart
  /\ CacheInit
  /\ NavInit /\ DiceIdle
  /\ CallIdle

StepAccounts ==
  /\ f_kind = "accounts" /\ f_st.status = "run" /\ f_st.n < MaxRequests
  /\ f_st' = AccountsStep(f_st, f_up, 0)
  /\ UNCHANGED <<f_kind, f_up, f_cap>>
  /\ UNCHANGED <<cacheVars, navVars, callVars, diceVars>>

StepOwnedMap ==
  /\ f_kind = "owned_map" /\ f_st.status = "run" /\ f_st.n < MaxRequests
  /\ f_st' = OwnedMapStep(f_st, f_up, 0)
  /\ UNCHANGED <<f_kind, f_up, f_cap>>
  /\ UNCHANGED <<cacheVars, navVars, callVars, diceVars>>

StepTokens ==
  /\ f_kind = "tokens" /\ f_st.status = "run" /\ f_st.n < MaxRequests
  /\ f_st' = TokensStep(f_st, f_up, 0, f_cap)
  /\ UNCHANGED <<f_kind, f_up, f_cap>>
  /\ UNCHANGED <<cacheVars, navVars, callVars, diceVars>>

FetchNext == StepAccounts \/ StepOwnedMap \/ StepTokens

SpecFetch == FetchSpecInit /\ [][FetchNext]_vars

(* ---------------------------- the name index --------------------------- *)
\* limit of collections_search as findcollection calls it
SEARCH_LIMIT == 400

\* collection.db: collection 1 is "Dragon Eggs", collection 2 is
\* "Sea Shells", collection c of 3..10 is "Gem" followed by c, and
\* collections 11 and 12 are "Orb11" and "Orb12"
CollectionDb ==
  [c \in Cids |-> IF c = 1 THEN <<68, 114, 97, 103, 111, 110, 32, 69, 103, 103, 115>>
                  ELSE IF c = 2 THEN <<83, 101, 97, 32, 83, 104, 101, 108, 108, 115>>
                  ELSE IF c <= 10 THEN <<71, 101, 109>> \o Str(c)
                  ELSE <<79, 114, 98>> \o Str(c)]

collections_get_name(cid) ==
  IF cid \in DOMAIN CollectionDb THEN <<CollectionDb[cid]>> ELSE <<>>

\* "Collection {cid}"
DefaultName(cid) == <<67, 111, 108, 108, 101, 99, 116, 105, 111, 110, 32>> \o Str(cid)

\* the label resolve_and_store_name returns: the name of the row, or the
\* default name when there is none (the upstream has no name for such a
\* collection)
resolve_and_store_name(cid) ==
  IF collections_get_name(cid) # <<>> THEN collections_get_name(cid)[1] ELSE DefaultName(cid)

\* the table after resolve_and_store_name(cid): a collection without a row
\* gets one, under its default name, in collection.db and collections.json
collections_upsert(db, cid) == IF cid \in DOMAIN CollectionDb THEN db ELSE db \cup {cid}

\* the name in the row of c: rows added since the start carry the default name
TableName(c) == IF c \in DOMAIN CollectionDb THEN CollectionDb[c] ELSE DefaultName(c)

Lower(c) == IF c \in 65..90 THEN c + 32 ELSE c

\* SQL LIKE: % matches any run of characters, _ one character, letters
\* compare without regard to case
RECURSIVE Like(_, _)
Like(p, s) ==
  IF p = <<>> THEN s = <<>>
  ELSE IF Head(p) = 37 THEN Like(Tail(p), s) \/ (s # <<>> /\ Like(p, Tail(s)))
  ELSE IF Head(p) = 95 THEN s # <<>> /\ Like(Tail(p), Tail(s))
  ELSE s # <<>> /\ Lower(Head(p)) = Lower(Head(s)) /\ Like(Tail(p), Tail(s))

\* the rows (id, name) of a set of collections, ORDER BY name ASC
RECURSIVE RowsByName(_)
RowsByName(cs) ==
  IF cs = {} THEN <<>>
  ELSE LET c == CHOOSE x \in cs :
                  \A y \in cs \ {x} : StrLess(TableName(x), TableName(y))
       IN <<<<c, TableName(c)>>>> \o RowsByName(cs \ {c})

\* db: the ids of the rows added since the start
collections_search(db, term, limit) ==
  LET rows == RowsByName({c \in Cids \cup db : Like(<<37>> \o term \o <<37>>, TableName(c))})
  IN SubSeq(rows, 1, IF Len(rows) < limit THEN Len(rows) ELSE limit)

\* term.lower() in name.lower()
Contains(term, name) ==
  \E i \in 0..(Len(name) - Len(term)) :
    \A j \in 1..Len(term) : Lower(term[j]) = Lower(name[i + j])

\* collections.json as sync_json_from_db_if_needed writes it
CollectionsJson(db) == RowsByName(Cids \cup db)

\* the matches findcollection works with: the database first, the JSON
\* backup when the database has none
find_matches(db, term) ==
  LET m == collections_search(db, term, SEARCH_LIMIT)
      Has(e) == Contains(term, e[2])
  IN IF m # <<>> THEN m ELSE SelectSeq(CollectionsJson(db), Has)

\* the terms users search for: "e" (ten names, two pages), "gem" (eight
\* names, one full page), "drag" (one name) and "zz" (none)
SearchTerms == {<<101>>, <<103, 101, 109>>, <<100, 114, 97, 103>>, <<122, 122>>}
\* the searches of the table as it is at the start
SearchTable == [t \in SearchTerms |-> find_matches({}, t)]

(* ------------------------------ the views ------------------------------ *)
\* filter_ids whose "missing" branch forgets the test
FilterIdsMissingIsAll(ids, have_set, mode) ==
  LET Owned(t) == t \in have_set
  IN IF mode = "owned" THEN SelectSeq(ids, Owned) ELSE ids
filter_ids(ids, have_set, mode) ==
  LET Missing(t) == t \notin have_set
      Owned(t) == t \in have_set
  IN IF mode = "missing" THEN SelectSeq(ids, Missing)
     ELSE IF mode = "owned" THEN SelectSeq(ids, Owned)
     ELSE ids

\* next_mode without its third entry
NextModeNoOwned(mode) == IF mode = "all" THEN "missing" ELSE "all"
next_mode(mode) ==
  IF mode = "all" THEN "missing" ELSE IF mode = "missing" THEN "owned" ELSE "all"

\* max(1, (n + size - 1) // size)
TotalPages(n, size) == IF (n + size - 1) \div size < 1 THEN 1 ELSE (n + size - 1) \div size

\* sorted(list(have)): strings in code point order
RECURSIVE sorted_strs(_)
sorted_strs(have) ==
  IF have = {} THEN <<>>
  ELSE LET m == CHOOSE x \in have : \A y \in have \ {x} : StrLess(x, y)
       IN <<m>> \o sorted_strs(have \ {m})

SetOf(seq) == {seq[i] : i \in 1..Len(seq)}

\* a progress dict with every key absent
NoProgress == [cid |-> 0, name |-> <<>>, ids |-> <<>>, have |-> {}, page |-> 0,
               mode |-> "all", from_find |-> FALSE, from_owned |-> FALSE]

\* what render_find_page puts on the screen for the dict s
FindView(s) ==
  [kind |-> "find", term |-> s.term, items |-> s.matches, page |-> s.page,
   total_pages |-> TotalPages(Len(s.matches), PAGE_SIZE)]

\* what render_owned_page puts on the screen for the dict s
OwnedView(s) ==
  [kind |-> "owned", items |-> s.rows, page |-> s.page,
   total_pages |-> TotalPages(Len(s.rows), OWNED_PAGE_SIZE)]

\* the page render_progress_page shows for the dict s
ProgressPageUnclamped(s) == s.page

\* the clamp that goes back to the first page
ProgressPageClampToFirst(s) ==
  LET total == Len(filter_ids(s.ids, s.have, s.mode))
      total_pages == TotalPages(total, PROGRESS_PAGE_SIZE)
  IN IF s.page >= total_pages THEN 0 ELSE s.page

ProgressPage(s) ==
  LET total == Len(filter_ids(s.ids, s.have, s.mode))
      total_pages == TotalPages(total, PROGRESS_PAGE_SIZE)
  IN IF s.page >= total_pages
     THEN (IF total_pages - 1 > 0 THEN total_pages - 1 ELSE 0)
     ELSE s.page

\* what render_progress_page puts on the screen for the dict s
ProgressView(s) ==
  [kind |-> "progress", cid |-> s.cid,
   name |-> IF s.name # <<>> THEN s.name
            ELSE IF collections_get_name(s.cid) # <<>> THEN collections_get_name(s.cid)[1]
            ELSE IF s.cid = 0 THEN <<>> ELSE Str(s.cid),
   ids |-> s.ids, have |-> s.have, mode |-> s.mode, page |-> ProgressPage(s),
   total_pages |-> TotalPages(Len(filter_ids(s.ids, s.have, s.mode)), PROGRESS_PAGE_SIZE),
   from_find |-> s.from_find, from_owned |-> s.from_owned]

\* seq[start:end] of Python: a negative bound counts from the end, and
\* both bounds are cut to the list
PySlice(seq, start, end) ==
  LET n == Len(seq)
      cut(i) == IF i < 0 THEN (IF i + n < 0 THEN 0 ELSE i + n) ELSE (IF i > n THEN n ELSE i)
  IN SubSeq(seq, cut(start) + 1, cut(end))

Min(a, b) == IF a < b THEN a ELSE b

\* build_find_keyboard: a button per match of the page, then Prev and Next
build_find_keyboard(matches, page) ==
  LET total == Len(matches)
      start == page * PAGE_SIZE
      end == Min((page + 1) * PAGE_SIZE, total)
      sl == PySlice(matches, start, end)
  IN [rows |-> [i \in 1..Len(sl) |-> [label |-> <<sl[i][2], sl[i][1]>>, data |-> sl[i][1]]],
      prev |-> page > 0, next |-> end < total]

\* build_owned_keyboard
build_owned_keyboard(rows_in, page) ==
  LET total == Len(rows_in)
      start == page * OWNED_PAGE_SIZE
      end == Min((page + 1) * OWNED_PAGE_SIZE, total)
      sl == PySlice(rows_in, start, end)
      nm(cid) == IF collections_get_name(cid) # <<>> THEN collections_get_name(cid)[1]
                 ELSE DefaultName(cid)
  IN [rows |-> [i \in 1..Len(sl) |->
                  [label |-> <<nm(sl[i][1]), sl[i][1], sl[i][2]>>, data |-> sl[i][1]]],
      prev |-> page > 0, next |-> end < total]

\* build_progress_keyboard: row1 is the same whatever the page
build_progress_keyboard(from_find, from_owned) ==
  [prev |-> TRUE, next |-> TRUE, toggle |-> TRUE, refresh |-> TRUE,
   back |-> from_find, back_owned |-> from_owned, close |-> TRUE]

\* the percentage cut off after two decimals instead of rounded
OverallPctTruncated(have_count, total_all) ==
  IF total_all = 0 THEN 0 ELSE (10000 * have_count) \div total_all
\* the percentage that counts an empty universe as complete
OverallPctEmptyIsFull(have_count, total_all) ==
  IF total_all = 0 THEN 10000
  ELSE LET q == (10000 * have_count) \div total_all
           r == (10000 * have_count) % total_all
       IN IF 2 * r > total_all THEN q + 1
          ELSE IF 2 * r < total_all THEN q
          ELSE IF q % 2 = 0 THEN q ELSE q + 1
\* round(100 * have_count / total_all, 2) in hundredths of a percent: the
\* nearest hundredth; a tie (a value m/8 with m odd) needs 32 tokens or
\* more and goes to the even hundredth
overall_pct(have_count, total_all) ==
  IF total_all = 0 THEN 0
  ELSE LET q == (10000 * have_count) \div total_all
           r == (10000 * have_count) % total_all
       IN IF 2 * r > total_all THEN q + 1
          ELSE IF 2 * r < total_all THEN q
          ELSE IF q % 2 = 0 THEN q ELSE q + 1

\* the text of render_progress_page for the dict s: the counts of the
\* header and a line per token of the page, marked owned or not
ProgressText(s) ==
  LET ids == filter_ids(s.ids, s.have, s.mode)
      total == Len(ids)
      page == ProgressPage(s)
      start == page * PROGRESS_PAGE_SIZE
      end == Min((page + 1) * PROGRESS_PAGE_SIZE, total)
      sl == PySlice(ids, start, end)
      have_count == Cardinality({i \in 1..Len(s.ids) : s.ids[i] \in s.have})
  IN [have_count |-> have_count, total_all |-> Len(s.ids),
      overall_pct |-> overall_pct(have_count, Len(s.ids)),
      mode |-> s.mode, page |-> page,
      total_pages |-> TotalPages(total, PROGRESS_PAGE_SIZE),
      lines |-> [i \in 1..Len(sl) |-> [owned |-> sl[i] \in s.have, tid |-> sl[i]]]]
(* ------------------------------- the bot ------------------------------- *)
\* Handlers run one at a time for a user.  A handler that renders a view
\* awaits the Telegram call that sends it and only then writes the session:
\* the model takes the handler up to the send as one step and the write
\* after it as a second step (SaveView), so that what happens in between
\* (time, other tasks, the end of the process) can be told apart.
\* start and prog:back store the very dict of the session in user_data; the
\* next render writes an equal fresh dict into the session, and the model
\* keeps the two as equal values.

\* the users who talk to the bot, the wallets they link, the collections
\* they select, the instants the clock is read at
NavUsers == {1}
NavWallets == {"wA"}
NavCids == {1}
SelCids == {1, 2}
NavTimes == {0, OWNED_MAX_AGE}
NavTerms == {<<101>>, <<122, 122>>}
\* the request at which the upstream fails during a handler (0: never)
NavFailPoints == {0, 1}

Ack(op, u, cid, notice, track, tokreq, walreq, hit, bg) ==
  [op |-> op, u |-> u, cid |-> cid, notice |-> notice, track |-> track,
   tokreq |-> tokreq, walreq |-> walreq, hit |-> hit, bg |-> bg]

\* a user_state that creates the record of every user that has none
UserStateForAll(S, UA, UC, uid) ==
  [v \in Users |-> IF S[v] # <<>> THEN S[v]
                   ELSE <<[address |-> UA[v], collection |-> UC[v], last_view |-> "",
                           find |-> <<>>, owned |-> <<>>, progress |-> <<>>]>>]
\* user_state: the session record of uid, created with its defaults when absent
user_state(S, UA, UC, uid) ==
  IF S[uid] # <<>> THEN S
  ELSE [S EXCEPT ![uid] = <<[address |-> UA[uid], collection |-> UC[uid], last_view |-> "",
                             find |-> <<>>, owned |-> <<>>, progress |-> <<>>]>>]

\* get_cached_wallet(uid) or USER_ADDRESS.get(uid)
WalletOf(uid) == IF walletDb[uid] # "" THEN walletDb[uid] ELSE USER_ADDRESS[uid]

NoFind == [term |-> <<>>, matches |-> <<>>, page |-> 0]
NoOwned == [rows |-> <<>>, page |-> 0]

\* render_find_page up to the await of the send
render_find_page(u, ud) ==
  LET s == IF ud.find = <<>> THEN NoFind ELSE ud.find[1]
  IN /\ shown' = [shown EXCEPT ![u] = <<FindView(s)>>]
     /\ user_data' = [user_data EXCEPT ![u] = ud]
     /\ pc' = [pc EXCEPT ![u] = "save_find"]

\* render_owned_page up to the await of the send
render_owned_page(u, ud) ==
  LET s == IF ud.owned = <<>> THEN NoOwned ELSE ud.owned[1]
  IN /\ shown' = [shown EXCEPT ![u] = <<OwnedView(s)>>]
     /\ user_data' = [user_data EXCEPT ![u] = ud]
     /\ pc' = [pc EXCEPT ![u] = "save_owned"]

\* render_progress_page up to the await of the send; the clamped page is
\* written back into the dict
render_progress_page(u, ud) ==
  LET s == IF ud.progress = <<>> THEN NoProgress ELSE ud.progress[1]
  IN /\ shown' = [shown EXCEPT ![u] = <<ProgressView(s)>>]
     /\ user_data' = [user_data EXCEPT ![u] =
                        IF ud.progress = <<>> THEN ud
                        ELSE [ud EXCEPT !.progress = <<[s EXCEPT !.page = ProgressPage(s)]>>]]
     /\ pc' = [pc EXCEPT ![u] = "save_progress"]

\* the session after render_find_page wrote the view v it sent
save_find(S, u, v) ==
  [S EXCEPT ![u] = <<[S[u][1] EXCEPT !.last_view = "find",
                        !.find = <<[term |-> v.term, matches |-> v.items, page |-> v.page]>>]>>]

save_owned(S, u, v) ==
  [S EXCEPT ![u] = <<[S[u][1] EXCEPT !.last_view = "owned",
                        !.owned = <<[rows |-> v.items, page |-> v.page]>>]>>]

\* prog_copy = {**s, "have": sorted(list(have))}
save_progress(S, u, s) ==
  [S EXCEPT ![u] = <<[S[u][1] EXCEPT !.last_view = "progress",
                        !.progress = <<[s EXCEPT !.have = sorted_strs(s.have)]>>,
                        !.collection = IF s.cid # 0 THEN s.cid ELSE @]>>]

\* the rest of a render after the send returned: user_state, the session
\* fields, save_state
SaveView(u) ==
  LET S1 == user_state(State, USER_ADDRESS, USER_COLLECTION, u)
      s == IF user_data[u].progress = <<>> THEN NoProgress ELSE user_data[u].progress[1]
  IN /\ pc[u] # "idle"
     /\ State' = IF pc[u] = "save_find" THEN save_find(S1, u, shown[u][1])
                 ELSE IF pc[u] = "save_owned" THEN save_owned(S1, u, shown[u][1])
                 ELSE save_progress(S1, u, s)
     /\ USER_COLLECTION' = IF pc[u] = "save_progress" /\ s.cid # 0
                           THEN [USER_COLLECTION EXCEPT ![u] = s.cid]
                           ELSE USER_COLLECTION
     /\ file' = State'
     /\ pc' = [pc EXCEPT ![u] = "idle"]
     /\ UNCHANGED <<USER_ADDRESS, walletDb, user_data, tasks, shown, ack,
                    TOKEN_CACHE, OWNED_CACHE, now, epoch>>

\* /start: resume the view the session designates, else the welcome text
Start(u) ==
  LET S1 == user_state(State, USER_ADDRESS, USER_COLLECTION, u)
      rec == S1[u][1]
      ud == user_data[u]
  IN /\ pc[u] = "idle"
     /\ State' = S1
     /\ IF rec.last_view = "progress" /\ rec.progress # <<>>
        THEN /\ render_progress_page(u, [ud EXCEPT !.progress =
                    <<[rec.progress[1] EXCEPT !.have = SetOf(rec.progress[1].have)]>>])
             /\ ack' = Ack("start", u, 0, "", 0, 0, 0, FALSE, FALSE)
        ELSE IF rec.last_view = "find" /\ rec.find # <<>>
        THEN /\ render_find_page(u, [ud EXCEPT !.find = rec.find])
             /\ ack' = Ack("start", u, 0, "", 0, 0, 0, FALSE, FALSE)
        ELSE IF rec.last_view = "owned" /\ rec.owned # <<>>
        THEN /\ render_owned_page(u, [ud EXCEPT !.owned = rec.owned])
             /\ ack' = Ack("start", u, 0, "", 0, 0, 0, FALSE, FALSE)
        ELSE /\ ack' = Ack("start", u, 0, "welcome", 0, 0, 0, FALSE, FALSE)
             /\ UNCHANGED <<user_data, shown, pc>>
     /\ UNCHANGED <<USER_ADDRESS, USER_COLLECTION, file, walletDb, tasks,
                    TOKEN_CACHE, OWNED_CACHE, now, epoch>>

\* the process ends (at any point, also between a send and the write that
\* follows it) and is started again: load_state reads the file
Restart ==
  /\ State' = file
  /\ USER_ADDRESS' = [u \in Users |-> IF file[u] # <<>> THEN file[u][1].address ELSE ""]
  /\ USER_COLLECTION' = [u \in Users |-> IF file[u] # <<>> THEN file[u][1].collection ELSE 0]
  /\ user_data' = [u \in Users |-> NoViews]
  /\ tasks' = {}
  /\ pc' = [u \in Users |-> "idle"]
  /\ TOKEN_CACHE' = [c \in CacheCids |-> <<>>]
  /\ OWNED_CACHE' = [u \in Users |-> <<>>]
  /\ ack' = Ack("restart", 0, 0, "", 0, 0, 0, FALSE, FALSE)
  /\ UNCHANGED <<file, walletDb, shown, now, epoch>>

\* /connect with the wallet addr answering the verification (or not yet)
Connect(u, addr, verified) ==
  /\ pc[u] = "idle"
  /\ IF verified
     THEN LET UA == [USER_ADDRESS EXCEPT ![u] = addr]
              S1 == user_state(State, UA, USER_COLLECTION, u)
          IN /\ USER_ADDRESS' = UA
             /\ State' = [S1 EXCEPT ![u] = <<[S1[u][1] EXCEPT !.address = addr]>>]
             /\ file' = State'
             /\ walletDb' = [walletDb EXCEPT ![u] = addr]
             /\ ack' = Ack("connect", u, 0, "connected", 0, 0, 0, FALSE, FALSE)
     ELSE /\ ack' = Ack("connect", u, 0, "waiting", 0, 0, 0, FALSE, FALSE)
          /\ UNCHANGED <<USER_ADDRESS, State, file, walletDb>>
  /\ UNCHANGED <<USER_COLLECTION, user_data, tasks, pc, shown,
                 TOKEN_CACHE, OWNED_CACHE, now, epoch>>

\* /disconnect that also drops the refresh tasks of the user
DisconnectCancels(u) ==
  LET UA == [USER_ADDRESS EXCEPT ![u] = ""]
      S1 == user_state(State, UA, USER_COLLECTION, u)
  IN /\ pc[u] = "idle"
     /\ USER_ADDRESS' = UA
     /\ State' = [S1 EXCEPT ![u] = <<[S1[u][1] EXCEPT !.address = ""]>>]
     /\ file' = State'
     /\ tasks' = {t \in tasks : t.u # u}
     /\ ack' = Ack("disconnect", u, 0, "disconnected", 0, 0, 0, FALSE, FALSE)
     /\ UNCHANGED <<USER_COLLECTION, walletDb, user_data, pc, shown,
                    TOKEN_CACHE, OWNED_CACHE, now, epoch>>
\* /disconnect
Disconnect(u) ==
  LET UA == [USER_ADDRESS EXCEPT ![u] = ""]
      S1 == user_state(State, UA, USER_COLLECTION, u)
  IN /\ pc[u] = "idle"
     /\ USER_ADDRESS' = UA
     /\ State' = [S1 EXCEPT ![u] = <<[S1[u][1] EXCEPT !.address = ""]>>]
     /\ file' = State'
     /\ ack' = Ack("disconnect", u, 0, "disconnected", 0, 0, 0, FALSE, FALSE)
     /\ UNCHANGED <<USER_COLLECTION, walletDb, user_data, tasks, pc, shown,
                    TOKEN_CACHE, OWNED_CACHE, now, epoch>>

\* /findcollection term
FindCollection(u, term) ==
  LET wallet == WalletOf(u)
      matches == IF COLLECTION_DB = {} /\ term \in DOMAIN SearchTable THEN SearchTable[term]
                 ELSE find_matches(COLLECTION_DB, term)
  IN /\ pc[u] = "idle"
     /\ walletDb' = IF wallet # "" THEN [walletDb EXCEPT ![u] = wallet] ELSE walletDb
     /\ tasks' = IF wallet # "" THEN tasks \cup {[u |-> u, addr |-> wallet]} ELSE tasks
     /\ IF matches = <<>>
        THEN /\ ack' = Ack("find", u, 0, "no_match", 0, 0, 0, FALSE, wallet # "")
             /\ UNCHANGED <<user_data, shown, pc>>
        ELSE /\ render_find_page(u, [user_data[u] EXCEPT !.find =
                    <<[term |-> term, matches |-> matches, page |-> 0]>>])
             /\ ack' = Ack("find", u, 0, "", 0, 0, 0, FALSE, wallet # "")
     /\ UNCHANGED <<USER_ADDRESS, USER_COLLECTION, State, file,
                    TOKEN_CACHE, OWNED_CACHE, now, epoch>>

\* a task that, at its end, also pushes the fresh holdings into the
\* progress dict of its user
TaskDonePushesView(t, failAt) ==
  LET r == refresh_owned_cache(OWNED_CACHE, now, t.u, AccountListing(epoch, t.addr), failAt)
      p == user_data[t.u].progress
  IN /\ t \in tasks
     /\ tasks' = tasks \ {t}
     /\ OWNED_CACHE' = r.cache
     /\ user_data' = IF r.ok /\ p # <<>> /\ p[1].cid \in DOMAIN r.owned
                     THEN [user_data EXCEPT ![t.u].progress =
                             <<[p[1] EXCEPT !.have = r.owned[p[1].cid]]>>]
                     ELSE user_data
     /\ UNCHANGED <<USER_ADDRESS, USER_COLLECTION, State, file, walletDb, pc,
                    shown, ack, TOKEN_CACHE, now, epoch>>
\* a refresh_owned_cache task runs to its end
TaskDone(t, failAt) ==
  LET r == refresh_owned_cache(OWNED_CACHE, now, t.u, AccountListing(epoch, t.addr), failAt)
  IN /\ t \in tasks
     /\ tasks' = tasks \ {t}
     /\ OWNED_CACHE' = r.cache
     /\ UNCHANGED <<USER_ADDRESS, USER_COLLECTION, State, file, walletDb, user_data, pc,
                    shown, ack, TOKEN_CACHE, now, epoch>>

\* owned.get(cid, set())
HaveOf(owned, cid) == IF cid \in DOMAIN owned THEN owned[cid] ELSE {}

\* sorted(counts.items(), key=lambda x: (-x[1], x[0])): larger counts
\* first, equal counts by collection id as a string
RowBefore(owned, a, b) ==
  \/ Cardinality(owned[a]) > Cardinality(owned[b])
  \/ Cardinality(owned[a]) = Cardinality(owned[b]) /\ StrLess(Str(a), Str(b))

RECURSIVE OwnedRows(_, _)
OwnedRows(owned, cs) ==
  IF cs = {} THEN <<>>
  ELSE LET c == CHOOSE x \in cs : \A y \in cs \ {x} : RowBefore(owned, x, y)
       IN <<<<c, Cardinality(owned[c])>>>> \o OwnedRows(owned, cs \ {c})

\* /mycollections
MyCollections(u, failAt) ==
  LET addr == USER_ADDRESS[u]
      cached == owned_cache_get(OWNED_CACHE, now, u)
      r == refresh_owned_cache(OWNED_CACHE, now, u, AccountListing(epoch, addr), failAt)
      owned == IF cached = <<>> THEN r.owned ELSE cached[1]
      rows == OwnedRows(owned, DOMAIN owned)
  IN /\ pc[u] = "idle"
     /\ IF addr = ""
        THEN /\ ack' = Ack("mycollections", u, 0, "not_linked", 0, 0, 0, FALSE, FALSE)
             /\ UNCHANGED <<OWNED_CACHE, tasks, user_data, shown, pc>>
        ELSE IF cached = <<>> /\ ~r.ok
        THEN /\ ack' = Ack("mycollections", u, 0, "wallet_failed", 0, 0, r.nreq, FALSE, FALSE)
             /\ UNCHANGED <<OWNED_CACHE, tasks, user_data, shown, pc>>
        ELSE /\ OWNED_CACHE' = IF cached = <<>> THEN r.cache ELSE OWNED_CACHE
             /\ tasks' = IF cached = <<>> THEN tasks ELSE tasks \cup {[u |-> u, addr |-> addr]}
             /\ IF rows = <<>>
                THEN /\ ack' = Ack("mycollections", u, 0, "no_wallet_tokens", 0, 0,
                                   IF cached = <<>> THEN r.nreq ELSE 0,
                                   cached # <<>>, cached # <<>>)
                     /\ UNCHANGED <<user_data, shown, pc>>
                ELSE /\ render_owned_page(u, [user_data[u] EXCEPT !.owned =
                            <<[rows |-> rows, page |-> 0]>>])
                     /\ ack' = Ack("mycollections", u, 0, "", 0, 0,
                                   IF cached = <<>> THEN r.nreq ELSE 0,
                                   cached # <<>>, cached # <<>>)
     /\ UNCHANGED <<USER_ADDRESS, USER_COLLECTION, State, file, walletDb,
                    TOKEN_CACHE, now, epoch>>

\* /setcollection cid
SetCollection(u, cid) ==
  LET UC == [USER_COLLECTION EXCEPT ![u] = cid]
      S1 == user_state(State, USER_ADDRESS, UC, u)
  IN /\ pc[u] = "idle"
     /\ IF USER_ADDRESS[u] = ""
        THEN /\ ack' = Ack("setcollection", u, cid, "not_linked", 0, 0, 0, FALSE, FALSE)
             /\ UNCHANGED <<USER_COLLECTION, State, file, COLLECTION_DB>>
        ELSE /\ COLLECTION_DB' = collections_upsert(COLLECTION_DB, cid)
             /\ USER_COLLECTION' = UC
             /\ State' = [S1 EXCEPT ![u] = <<[S1[u][1] EXCEPT !.collection = cid]>>]
             /\ file' = State'
             /\ ack' = Ack("setcollection", u, cid, "collection_set", 1, 0, 0, FALSE, FALSE)
     /\ UNCHANGED <<USER_ADDRESS, walletDb, user_data, tasks, pc, shown,
                    TOKEN_CACHE, OWNED_CACHE, now, epoch>>

\* the common tail of /collections, setcol: and owned:set: once a wallet addr
\* and a collection cid are there: the token universe through the cache,
\* the ownership from the cache or empty, the progress dict, the render
EnterProgress(u, op, cid, addr, from_find, from_owned, failAt) ==
  LET r == get_collection_token_ids_cached(TOKEN_CACHE, now, cid, TOKEN_CACHE_MAX_AGE, FALSE,
                                           TokenListing(epoch, cid), failAt)
      owned_cached == owned_cache_get(OWNED_CACHE, now, u)
      have_set == IF owned_cached = <<>> THEN {} ELSE HaveOf(owned_cached[1], cid)
  IN /\ TOKEN_CACHE' = r.cache
     /\ IF ~r.ok
        THEN /\ ack' = Ack(op, u, cid, "fetch_failed", 1, r.nreq, 0, FALSE, FALSE)
             /\ UNCHANGED <<tasks, user_data, shown, pc>>
        ELSE IF r.ids = <<>>
        THEN /\ ack' = Ack(op, u, cid, "no_tokens", 1, r.nreq, 0, FALSE, FALSE)
             /\ UNCHANGED <<tasks, user_data, shown, pc>>
        ELSE /\ tasks' = IF owned_cached = <<>> THEN tasks \cup {[u |-> u, addr |-> addr]}
                         ELSE tasks
             /\ render_progress_page(u, [user_data[u] EXCEPT !.progress =
                    <<[cid |-> cid, name |-> resolve_and_store_name(cid), ids |-> r.ids,
                       have |-> have_set, page |-> 0, mode |-> "all",
                       from_find |-> from_find, from_owned |-> from_owned]>>])
             /\ ack' = Ack(op, u, cid, "", 1, r.nreq, 0, owned_cached # <<>>,
                           owned_cached = <<>>)

\* /collections
CollectionsCmd(u, failAt) ==
  LET wallet == WalletOf(u)
      cid == USER_COLLECTION[u]
  IN /\ pc[u] = "idle"
     /\ walletDb' = IF wallet # "" THEN [walletDb EXCEPT ![u] = wallet] ELSE walletDb
     /\ IF wallet = ""
        THEN /\ ack' = Ack("collections", u, cid, "not_linked", 0, 0, 0, FALSE, FALSE)
             /\ UNCHANGED <<TOKEN_CACHE, tasks, user_data, shown, pc>>
        ELSE IF cid = 0
        THEN /\ ack' = Ack("collections", u, cid, "no_collection", 0, 0, 0, FALSE, FALSE)
             /\ UNCHANGED <<TOKEN_CACHE, tasks, user_data, shown, pc>>
        ELSE EnterProgress(u, "collections", cid, wallet, FALSE, FALSE, failAt)
     /\ UNCHANGED <<USER_ADDRESS, USER_COLLECTION, State, file, OWNED_CACHE, now, epoch>>

\* Select without the test for a linked wallet
SelectUnchecked(u, op, cid, from_find, from_owned, failAt) ==
  LET UC == [USER_COLLECTION EXCEPT ![u] = cid]
      S1 == user_state(State, USER_ADDRESS, UC, u)
  IN /\ pc[u] = "idle"
     /\ USER_COLLECTION' = UC
     /\ State' = [S1 EXCEPT ![u] = <<[S1[u][1] EXCEPT !.collection = cid]>>]
     /\ file' = State'
     /\ EnterProgress(u, op, cid, USER_ADDRESS[u], from_find, from_owned, failAt)
     /\ UNCHANGED <<USER_ADDRESS, walletDb, OWNED_CACHE, now, epoch>>

\* the buttons setcol:cid of a search result and owned:set:cid of an owned
\* row (the same code twice, but for the origin they record)
Select(u, op, cid, from_find, from_owned, failAt) ==
  LET UC == [USER_COLLECTION EXCEPT ![u] = cid]
      S1 == user_state(State, USER_ADDRESS, UC, u)
      addr == USER_ADDRESS[u]
  IN /\ pc[u] = "idle"
     /\ USER_COLLECTION' = UC
     /\ State' = [S1 EXCEPT ![u] = <<[S1[u][1] EXCEPT !.collection = cid]>>]
     /\ file' = State'
     /\ IF addr = ""
        THEN /\ ack' = Ack(op, u, cid, "not_linked", 1, 0, 0, FALSE, FALSE)
             /\ UNCHANGED <<TOKEN_CACHE, tasks, user_data, shown, pc>>
        ELSE EnterProgress(u, op, cid, addr, from_find, from_owned, failAt)
     /\ UNCHANGED <<USER_ADDRESS, walletDb, OWNED_CACHE, now, epoch>>

Setcol(u, cid, failAt) == Select(u, "setcol", cid, TRUE, FALSE, failAt)
OwnedSet(u, cid, failAt) == Select(u, "owned:set", cid, FALSE, TRUE, failAt)

\* the guards of the pager buttons
CanPrev(page) == page > 0
CanNextInclusive(page, size, total) == (page + 1) * size <= total
CanNext(page, size, total) == (page + 1) * size < total

\* find:prev (d = -1) and find:next (d = 1)
FindPage(u, d) ==
  LET ud == user_data[u]
      s == IF ud.find = <<>> THEN NoFind ELSE ud.find[1]
      go == IF d < 0 THEN CanPrev(s.page) ELSE CanNext(s.page, PAGE_SIZE, Len(s.matches))
  IN /\ pc[u] = "idle"
     /\ ack' = Ack(IF d < 0 THEN "find:prev" ELSE "find:next", u, 0, "", 0, 0, 0, FALSE, FALSE)
     /\ IF go
        THEN render_find_page(u, [ud EXCEPT !.find = <<[s EXCEPT !.page = s.page + d]>>])
        ELSE UNCHANGED <<user_data, shown, pc>>
     /\ UNCHANGED <<USER_ADDRESS, USER_COLLECTION, State, file, walletDb, tasks,
                    TOKEN_CACHE, OWNED_CACHE, now, epoch>>

\* owned:prev and owned:next
OwnedPage(u, d) ==
  LET ud == user_data[u]
      s == IF ud.owned = <<>> THEN NoOwned ELSE ud.owned[1]
      go == IF d < 0 THEN CanPrev(s.page) ELSE CanNext(s.page, OWNED_PAGE_SIZE, Len(s.rows))
  IN /\ pc[u] = "idle"
     /\ ack' = Ack(IF d < 0 THEN "owned:prev" ELSE "owned:next", u, 0, "", 0, 0, 0, FALSE, FALSE)
     /\ IF go
        THEN render_owned_page(u, [ud EXCEPT !.owned = <<[s EXCEPT !.page = s.page + d]>>])
        ELSE UNCHANGED <<user_data, shown, pc>>
     /\ UNCHANGED <<USER_ADDRESS, USER_COLLECTION, State, file, walletDb, tasks,
                    TOKEN_CACHE, OWNED_CACHE, now, epoch>>

\* prog:prev and prog:next
ProgPage(u, d) ==
  LET ud == user_data[u]
      s == IF ud.progress = <<>> THEN NoProgress ELSE ud.progress[1]
      filtered_total == Len(filter_ids(s.ids, s.have, s.mode))
      go == IF d < 0 THEN CanPrev(s.page)
            ELSE CanNext(s.page, PROGRESS_PAGE_SIZE, filtered_total)
  IN /\ pc[u] = "idle"
     /\ ack' = Ack(IF d < 0 THEN "prog:prev" ELSE "prog:next", u, 0, "", 0, 0, 0, FALSE, FALSE)
     /\ IF go
        THEN render_progress_page(u, [ud EXCEPT !.progress = <<[s EXCEPT !.page = s.page + d]>>])
        ELSE UNCHANGED <<user_data, shown, pc>>
     /\ UNCHANGED <<USER_ADDRESS, USER_COLLECTION, State, file, walletDb, tasks,
                    TOKEN_CACHE, OWNED_CACHE, now, epoch>>

\* the test of the three close branches: the pointer is cleared when it
\* names the view being closed
ClosesPointerAlways(last_view, kind) == TRUE
ClosesPointer(last_view, kind) == last_view = kind
\* find:close, owned:close and prog:close: the view's handler data is
\* dropped, and the last-view pointer is cleared and saved when it names
\* the view
Close(u, kind) ==
  LET S1 == user_state(State, USER_ADDRESS, USER_COLLECTION, u)
  IN /\ pc[u] = "idle"
     /\ user_data' = [user_data EXCEPT ![u] =
                        IF kind = "find" THEN [@ EXCEPT !.find = <<>>]
                        ELSE IF kind = "owned" THEN [@ EXCEPT !.owned = <<>>]
                        ELSE [@ EXCEPT !.progress = <<>>]]
     /\ IF ClosesPointer(S1[u][1].last_view, kind)
        THEN /\ State' = [S1 EXCEPT ![u] = <<[S1[u][1] EXCEPT !.last_view = ""]>>]
             /\ file' = State'
        ELSE /\ State' = S1
             /\ UNCHANGED file
     /\ shown' = IF shown[u] # <<>> /\ shown[u][1].kind = kind
                 THEN [shown EXCEPT ![u] = <<>>] ELSE shown
     /\ ack' = Ack(IF kind = "find" THEN "find:close"
                   ELSE IF kind = "owned" THEN "owned:close" ELSE "prog:close",
                   u, 0, "closed", 0, 0, 0, FALSE, FALSE)
     /\ UNCHANGED <<USER_ADDRESS, USER_COLLECTION, walletDb, tasks, pc,
                    TOKEN_CACHE, OWNED_CACHE, now, epoch>>

\* prog:toggle
ProgToggle(u) ==
  LET ud == user_data[u]
      s == IF ud.progress = <<>> THEN NoProgress ELSE ud.progress[1]
  IN /\ pc[u] = "idle"
     /\ render_progress_page(u, [ud EXCEPT !.progress =
            <<[s EXCEPT !.mode = next_mode(s.mode), !.page = 0]>>])
     /\ ack' = Ack("prog:toggle", u, 0, "", 0, 0, 0, FALSE, FALSE)
     /\ UNCHANGED <<USER_ADDRESS, USER_COLLECTION, State, file, walletDb, tasks,
                    TOKEN_CACHE, OWNED_CACHE, now, epoch>>

\* prog:refresh: the name, then inside the try the universe (forced), the
\* wallet's holdings and page 0; whatever raised, the view is rendered
ProgRefresh(u, tokFailAt, walFailAt) ==
  LET ud == user_data[u]
      s == IF ud.progress = <<>> THEN NoProgress ELSE ud.progress[1]
      cid == s.cid
      addr == USER_ADDRESS[u]
      r == get_collection_token_ids_cached(TOKEN_CACHE, now, cid, 0, TRUE,
                                           TokenListing(epoch, cid), tokFailAt)
      w == get_wallet_owned_by_collection(AccountListing(epoch, addr), walFailAt)
      s1 == [s EXCEPT !.name = resolve_and_store_name(cid)]
      s2 == [s1 EXCEPT !.ids = r.ids]
      s3 == [s2 EXCEPT !.have = IF addr = "" THEN {} ELSE HaveOf(w.owned, cid), !.page = 0]
  IN /\ pc[u] = "idle"
     /\ IF cid = 0
        THEN /\ render_progress_page(u, ud)
             /\ ack' = Ack("prog:refresh", u, 0, "", 0, 0, 0, FALSE, FALSE)
             /\ UNCHANGED TOKEN_CACHE
        ELSE /\ TOKEN_CACHE' = r.cache
             /\ IF ~r.ok
                THEN /\ render_progress_page(u, [ud EXCEPT !.progress = <<s1>>])
                     /\ ack' = Ack("prog:refresh", u, cid, "", 1, r.nreq, 0, FALSE, FALSE)
                ELSE IF addr # "" /\ ~w.ok
                THEN /\ render_progress_page(u, [ud EXCEPT !.progress = <<s2>>])
                     /\ ack' = Ack("prog:refresh", u, cid, "", 1, r.nreq, w.nreq, FALSE, FALSE)
                ELSE /\ render_progress_page(u, [ud EXCEPT !.progress = <<s3>>])
                     /\ ack' = Ack("prog:refresh", u, cid, "", 1, r.nreq,
                                   IF addr = "" THEN 0 ELSE w.nreq, FALSE, FALSE)
     /\ UNCHANGED <<USER_ADDRESS, USER_COLLECTION, State, file, walletDb, tasks,
                    OWNED_CACHE, now, epoch>>

\* prog:back: the find dict of the handler data, else the one of the session
ProgBack(u) ==
  LET ud == user_data[u]
      S1 == user_state(State, USER_ADDRESS, USER_COLLECTION, u)
      find_state == IF ud.find # <<>> THEN ud.find ELSE S1[u][1].find
  IN /\ pc[u] = "idle"
     /\ State' = IF ud.find # <<>> THEN State ELSE S1
     /\ ack' = Ack("prog:back", u, 0, "", 0, 0, 0, FALSE, FALSE)
     /\ IF find_state # <<>>
        THEN render_find_page(u, [ud EXCEPT !.find = find_state])
        ELSE UNCHANGED <<user_data, shown, pc>>
     /\ UNCHANGED <<USER_ADDRESS, USER_COLLECTION, file, walletDb, tasks,
                    TOKEN_CACHE, OWNED_CACHE, now, epoch>>

\* prog:back_owned
ProgBackOwned(u) ==
  LET ud == user_data[u]
      S1 == user_state(State, USER_ADDRESS, USER_COLLECTION, u)
      owned_state == IF ud.owned # <<>> THEN ud.owned ELSE S1[u][1].owned
  IN /\ pc[u] = "idle"
     /\ State' = IF ud.owned # <<>> THEN State ELSE S1
     /\ ack' = Ack("prog:back_owned", u, 0, "", 0, 0, 0, FALSE, FALSE)
     /\ IF owned_state # <<>>
        THEN render_owned_page(u, [ud EXCEPT !.owned = owned_state])
        ELSE UNCHANGED <<user_data, shown, pc>>
     /\ UNCHANGED <<USER_ADDRESS, USER_COLLECTION, file, walletDb, tasks,
                    TOKEN_CACHE, OWNED_CACHE, now, epoch>>

\* time passes
NavTick ==
  /\ \E t \in NavTimes : t > now /\ now' = t
  /\ UNCHANGED <<TOKEN_CACHE, OWNED_CACHE, epoch, navVars>>

\* the handler that ran has returned and its reply is delivered
Return ==
  /\ ack # NoAck
  /\ \A u \in Users : pc[u] = "idle"
  /\ ack' = NoAck
  /\ UNCHANGED <<USER_ADDRESS, USER_COLLECTION, State, file, walletDb, user_data, tasks, pc,
                 shown, TOKEN_CACHE, OWNED_CACHE, now, epoch>>

\* no reply is under way: the next update, task or tick is taken
Quiet == ack = NoAck

\* a tap on a button of the view of that kind the chat shows
Tap(u, kind) == Quiet /\ shown[u] # <<>> /\ shown[u][1].kind = kind

\* the collections the rows of the view shown offer to select
ShownCids(u) == {shown[u][1].items[i][1] : i \in 1..Len(shown[u][1].items)}

\* Updates are taken one after the other, and a button is tapped on the
\* view the chat shows (also after a restart, on the view sent before it).
\* The clock, the ledger and the background tasks move between updates:
\* they commute with the write that follows a send.  The process can end
\* at any point.  After a restart the next update is a /start, or anything
\* else once Return has passed.
DoStart == \E u \in NavUsers : (Quiet \/ ack.op = "restart") /\ Start(u)
DoSaveView == \E u \in NavUsers : SaveView(u)
DoConnect == \E u \in NavUsers, addr \in NavWallets, verified \in BOOLEAN :
               Quiet /\ Connect(u, addr, verified)
DoDisconnect == \E u \in NavUsers : Quiet /\ Disconnect(u)
DoFindCollection == \E u \in NavUsers, term \in NavTerms : Quiet /\ FindCollection(u, term)
DoMyCollections == \E u \in NavUsers, fa \in NavFailPoints : Quiet /\ MyCollections(u, fa)
DoSetCollection == \E u \in NavUsers, cid \in SelCids : Quiet /\ SetCollection(u, cid)
DoCollectionsCmd == \E u \in NavUsers, fa \in NavFailPoints : Quiet /\ CollectionsCmd(u, fa)
DoSetcol(cids) == \E u \in NavUsers, cid \in cids, fa \in NavFailPoints :
              Tap(u, "find") /\ cid \in ShownCids(u) /\ Setcol(u, cid, fa)
DoOwnedSet(cids) == \E u \in NavUsers, cid \in cids, fa \in NavFailPoints :
                Tap(u, "owned") /\ cid \in ShownCids(u) /\ OwnedSet(u, cid, fa)
DoFindPage == \E u \in NavUsers, d \in {-1, 1} : Tap(u, "find") /\ FindPage(u, d)
DoOwnedPage == \E u \in NavUsers, d \in {-1, 1} : Tap(u, "owned") /\ OwnedPage(u, d)
DoProgPage == \E u \in NavUsers, d \in {-1, 1} : Tap(u, "progress") /\ ProgPage(u, d)
DoClose == \E u \in NavUsers, kind \in {"find", "owned", "progress"} :
             Tap(u, kind) /\ Close(u, kind)
DoProgToggle == \E u \in NavUsers : Tap(u, "progress") /\ ProgToggle(u)
DoProgRefresh == \E u \in NavUsers, tfa \in NavFailPoints, wfa \in NavFailPoints :
                   Tap(u, "progress") /\ ProgRefresh(u, tfa, wfa)
DoProgBack == \E u \in NavUsers : Tap(u, "progress") /\ ProgBack(u)
DoProgBackOwned == \E u \in NavUsers : Tap(u, "progress") /\ ProgBackOwned(u)
DoTaskDone == \E t \in tasks, fa \in NavFailPoints : Quiet /\ TaskDone(t, fa)
DoTick == Quiet /\ NavTick
DoLedgerChange == Quiet /\ LedgerChange /\ UNCHANGED navVars

\* a tap on Close of an older message: a view of that kind was sent, has
\* not been closed since, and is not the view sent last
DoStaleClose == \E u \in NavUsers, kind \in {"find", "owned"} :
                  /\ Quiet
                  /\ user_data[u][kind] # <<>>
                  /\ shown[u] # <<>> /\ shown[u][1].kind # kind
                  /\ Close(u, kind)
\* the views, their buttons, /start and the end of the process
Next ==
  \/ (DoStart /\ UNCHANGED <<fetchVars, diceVars, callVars, COLLECTION_DB, obs>>)
  \/ (DoSaveView /\ UNCHANGED <<fetchVars, diceVars, callVars, COLLECTION_DB, obs>>)
  \/ (DoConnect /\ UNCHANGED <<fetchVars, diceVars, callVars, COLLECTION_DB, obs>>)
  \/ (DoFindCollection /\ UNCHANGED <<fetchVars, diceVars, callVars, COLLECTION_DB, obs>>)
  \/ (DoMyCollections /\ UNCHANGED <<fetchVars, diceVars, callVars, COLLECTION_DB, obs>>)
  \/ (DoSetcol(NavCids) /\ UNCHANGED <<fetchVars, diceVars, callVars, COLLECTION_DB, obs>>)
  \/ (DoOwnedSet(NavCids) /\ UNCHANGED <<fetchVars, diceVars, callVars, COLLECTION_DB, obs>>)
  \/ (DoFindPage /\ UNCHANGED <<fetchVars, diceVars, callVars, COLLECTION_DB, obs>>)
  \/ (DoOwnedPage /\ UNCHANGED <<fetchVars, diceVars, callVars, COLLECTION_DB, obs>>)
  \/ (DoProgPage /\ UNCHANGED <<fetchVars, diceVars, callVars, COLLECTION_DB, obs>>)
  \/ (DoClose /\ UNCHANGED <<fetchVars, diceVars, callVars, COLLECTION_DB, obs>>)
  \/ (DoProgToggle /\ UNCHANGED <<fetchVars, diceVars, callVars, COLLECTION_DB, obs>>)
  \/ (DoProgRefresh /\ UNCHANGED <<fetchVars, diceVars, callVars, COLLECTION_DB, obs>>)
  \/ (DoProgBack /\ UNCHANGED <<fetchVars, diceVars, callVars, COLLECTION_DB, obs>>)
  \/ (DoProgBackOwned /\ UNCHANGED <<fetchVars, diceVars, callVars, COLLECTION_DB, obs>>)
  \/ (DoLedgerChange /\ UNCHANGED <<fetchVars, diceVars, callVars>>)
  \/ (Restart /\ UNCHANGED <<fetchVars, diceVars, callVars, COLLECTION_DB, obs>>)
  \/ (Return /\ UNCHANGED <<fetchVars, diceVars, callVars, COLLECTION_DB, obs>>)

\* linking, selecting and the ownership cache, without paging and restarts
SelectNext ==
  \/ (DoSaveView /\ UNCHANGED <<fetchVars, diceVars, callVars, COLLECTION_DB, obs>>)
  \/ (DoConnect /\ UNCHANGED <<fetchVars, diceVars, callVars, COLLECTION_DB, obs>>)
  \/ (DoDisconnect /\ UNCHANGED <<fetchVars, diceVars, callVars, COLLECTION_DB, obs>>)
  \/ (DoFindCollection /\ UNCHANGED <<fetchVars, diceVars, callVars, COLLECTION_DB, obs>>)
  \/ (DoMyCollections /\ UNCHANGED <<fetchVars, diceVars, callVars, COLLECTION_DB, obs>>)
  \/ (DoSetCollection /\ UNCHANGED <<fetchVars, diceVars, callVars, obs>>)
  \/ (DoCollectionsCmd /\ UNCHANGED <<fetchVars, diceVars, callVars, COLLECTION_DB, obs>>)
  \/ (DoSetcol(SelCids) /\ UNCHANGED <<fetchVars, diceVars, callVars, COLLECTION_DB, obs>>)
  \/ (DoOwnedSet(SelCids) /\ UNCHANGED <<fetchVars, diceVars, callVars, COLLECTION_DB, obs>>)
  \/ (DoTaskDone /\ UNCHANGED <<fetchVars, diceVars, callVars, COLLECTION_DB, obs>>)
  \/ (DoTick /\ UNCHANGED <<fetchVars, diceVars, callVars, obs>>)
  \/ (Return /\ UNCHANGED <<fetchVars, diceVars, callVars, COLLECTION_DB, obs>>)

\* the ways into the progress view and back: search, owned list and
\* /collections, without restarts
BackNext ==
  \/ (DoSaveView /\ UNCHANGED <<fetchVars, diceVars, callVars, COLLECTION_DB, obs>>)
  \/ (DoConnect /\ UNCHANGED <<fetchVars, diceVars, callVars, COLLECTION_DB, obs>>)
  \/ (DoFindCollection /\ UNCHANGED <<fetchVars, diceVars, callVars, COLLECTION_DB, obs>>)
  \/ (DoMyCollections /\ UNCHANGED <<fetchVars, diceVars, callVars, COLLECTION_DB, obs>>)
  \/ (DoCollectionsCmd /\ UNCHANGED <<fetchVars, diceVars, callVars, COLLECTION_DB, obs>>)
  \/ (DoSetcol(NavCids) /\ UNCHANGED <<fetchVars, diceVars, callVars, COLLECTION_DB, obs>>)
  \/ (DoOwnedSet(NavCids) /\ UNCHANGED <<fetchVars, diceVars, callVars, COLLECTION_DB, obs>>)
  \/ (DoFindPage /\ UNCHANGED <<fetchVars, diceVars, callVars, COLLECTION_DB, obs>>)
  \/ (DoOwnedPage /\ UNCHANGED <<fetchVars, diceVars, callVars, COLLECTION_DB, obs>>)
  \/ (DoProgBack /\ UNCHANGED <<fetchVars, diceVars, callVars, COLLECTION_DB, obs>>)
  \/ (DoProgBackOwned /\ UNCHANGED <<fetchVars, diceVars, callVars, COLLECTION_DB, obs>>)
  \/ (Return /\ UNCHANGED <<fetchVars, diceVars, callVars, COLLECTION_DB, obs>>)

\* list views sent by commands, each in a message of its own, and the
\* Close buttons of the message sent last and of the older ones; no button
\* here turns a message into a view of another kind
CloseNext ==
  \/ (DoStart /\ UNCHANGED <<fetchVars, diceVars, callVars, COLLECTION_DB, obs>>)
  \/ (DoSaveView /\ UNCHANGED <<fetchVars, diceVars, callVars, COLLECTION_DB, obs>>)
  \/ (DoConnect /\ UNCHANGED <<fetchVars, diceVars, callVars, COLLECTION_DB, obs>>)
  \/ (DoFindCollection /\ UNCHANGED <<fetchVars, diceVars, callVars, COLLECTION_DB, obs>>)
  \/ (DoMyCollections /\ UNCHANGED <<fetchVars, diceVars, callVars, COLLECTION_DB, obs>>)
  \/ (DoCollectionsCmd /\ UNCHANGED <<fetchVars, diceVars, callVars, COLLECTION_DB, obs>>)
  \/ (DoSetCollection /\ UNCHANGED <<fetchVars, diceVars, callVars, obs>>)
  \/ (DoFindPage /\ UNCHANGED <<fetchVars, diceVars, callVars, COLLECTION_DB, obs>>)
  \/ (DoOwnedPage /\ UNCHANGED <<fetchVars, diceVars, callVars, COLLECTION_DB, obs>>)
  \/ (DoClose /\ UNCHANGED <<fetchVars, diceVars, callVars, COLLECTION_DB, obs>>)
  \/ (DoStaleClose /\ UNCHANGED <<fetchVars, diceVars, callVars, COLLECTION_DB, obs>>)
  \/ (Return /\ UNCHANGED <<fetchVars, diceVars, callVars, COLLECTION_DB, obs>>)
Init == CacheInit /\ FetchIdle /\ NavInit /\ DiceIdle /\ CallIdle

Spec == Init /\ [][Next]_vars

SpecDice == Init /\ [][DiceNext]_vars

SpecSelect == Init /\ [][SelectNext]_vars

SpecBack == Init /\ [][BackNext]_vars

SpecClose == Init /\ [][CloseNext]_vars

(* ------------------- the progress-text specification -------------------- *)
\* One call of filter_ids (in its three modes) or of the text part of
\* render_progress_page, on arguments drawn at the start.

\* most tokens of a universe list given to filter_ids
MaxUniverse == 3
\* sizes of the universes 1..n given to render_progress_page
RenderSizes == {0, 1, 3, 7, 10, PROGRESS_PAGE_SIZE, PROGRESS_PAGE_SIZE + 1}

\* token ids a universe list is made of, and one more a wallet may hold
FilterTokens == {Str(1), Str(2), Str(3)}
FilterLists == UNION {[1..n -> FilterTokens] : n \in 0..MaxUniverse}
FilterHaves == SUBSET (FilterTokens \cup {Str(9)})
RenderHaves == {{}, {Str(1)}, {Str(3), Str(7)}, {Str(3), Str(7), Str(99)}}

FilterCalls == {[fn |-> "filter_ids", ids |-> l, have |-> h] :
                  l \in FilterLists, h \in FilterHaves}
RenderCalls == {[fn |-> "render_progress_page",
                 s |-> [NoProgress EXCEPT !.cid = 1, !.ids = [i \in 1..n |-> Str(i)],
                                          !.have = h, !.mode = m, !.page = p]] :
                  n \in RenderSizes, h \in RenderHaves,
                  m \in {"all", "missing", "owned"}, p \in {0, 1}}

TextInit ==
  /\ p_call \in FilterCalls \cup RenderCalls
  /\ p_ret = <<>>
  /\ CacheInit /\ FetchIdle /\ NavInit /\ DiceIdle

CallFilterIds ==
  /\ p_call.fn = "filter_ids" /\ p_ret = <<>>
  /\ p_ret' = <<[all |-> filter_ids(p_call.ids, p_call.have, "all"),
                 missing |-> filter_ids(p_call.ids, p_call.have, "missing"),
                 owned |-> filter_ids(p_call.ids, p_call.have, "owned")]>>
  /\ UNCHANGED <<p_call, fetchVars, diceVars, cacheVars, navVars>>

CallRenderProgress ==
  /\ p_call.fn = "render_progress_page" /\ p_ret = <<>>
  /\ p_ret' = <<ProgressText(p_call.s)>>
  /\ UNCHANGED <<p_call, fetchVars, diceVars, cacheVars, navVars>>

TextNext == CallFilterIds \/ CallRenderProgress

SpecText == TextInit /\ [][TextNext]_vars
(* --------------------- the reconciler specification --------------------- *)
\* One call of _fetch_owned_map or of get_wallet_owned_by_collection on
\* the holding records of a wallet, listed by the upstream in some order
\* and cut into pages at some places.

\* most holding records of the wallet
MaxRecords == 3

\* holding records: a positive balance, a zero one for the same token, a
\* reserved balance alone, both fields null, and the token id of the first
\* in another collection
HoldingPool ==
  {Holding(1, 3, <<1>>, <<0>>), Holding(1, 3, <<0>>, <<>>),
   Holding(1, 5, <<>>, <<2>>), Holding(2, 1, <<>>, <<>>),
   Holding(2, 3, <<2>>, <<1>>)}

\* the places a listing of n records is cut at: none, one or two
CutsOf(n) == {<<>>} \cup {<<a>> : a \in 0..n}
               \cup {<<a, b>> : a \in 0..n, b \in 0..n}

\* the pages of the records cut after the places cuts (in increasing order)
PagesOf(records, cuts) ==
  LET n == Len(records)
      last == Len(cuts) + 1
      from(i) == IF i = 1 THEN 1 ELSE cuts[i - 1] + 1
      to(i) == IF i = last THEN n ELSE cuts[i]
  IN [i \in 1..last |-> [edges |-> SubSeq(records, from(i), to(i)),
                         hasNextPage |-> i < last,
                         endCursor |-> IF i < last THEN i + 1 ELSE 0]]

Increasing(cuts) == \A i \in 1..(Len(cuts) - 1) : cuts[i] <= cuts[i + 1]

ReconcileCalls ==
  {[fn |-> f, records |-> r, cuts |-> c] :
     f \in {"_fetch_owned_map", "get_wallet_owned_by_collection"},
     r \in UNION {[1..n -> HoldingPool] : n \in 0..MaxRecords},
     c \in {c \in CutsOf(MaxRecords) : Increasing(c)}}

ReconcileInit ==
  /\ p_call \in {c \in ReconcileCalls :
                   \A i \in 1..Len(c.cuts) : c.cuts[i] <= Len(c.records)}
  /\ p_ret = <<>>
  /\ CacheInit /\ FetchIdle /\ NavInit /\ DiceIdle

CallFetchOwnedMap ==
  /\ p_call.fn = "_fetch_owned_map" /\ p_ret = <<>>
  /\ p_ret' = <<fetch_owned_map(PagesOf(p_call.records, p_call.cuts), 0).owned>>
  /\ UNCHANGED <<p_call, fetchVars, diceVars, cacheVars, navVars>>

CallGetWalletOwned ==
  /\ p_call.fn = "get_wallet_owned_by_collection" /\ p_ret = <<>>
  /\ p_ret' = <<get_wallet_owned_by_collection(PagesOf(p_call.records, p_call.cuts), 0).owned>>
  /\ UNCHANGED <<p_call, fetchVars, diceVars, cacheVars, navVars>>

ReconcileNext == CallFetchOwnedMap \/ CallGetWalletOwned

SpecReconcile == ReconcileInit /\ [][ReconcileNext]_vars
(* ------------------------ the sort specification ------------------------ *)
\* One call of sort_token_ids on a list of token ids drawn at the start.

\* most ids of a list given to sort_token_ids
MaxSortLen == 3

\* "9", "10", "2", "07", "a", "B", "1a" and the empty string
SortPool == {Str(9), Str(10), Str(2), <<48, 55>>, <<97>>, <<66>>, <<49, 97>>, <<>>}

SortCalls == {[fn |-> "sort_token_ids", ids |-> l] :
                l \in UNION {[1..n -> SortPool] : n \in 0..MaxSortLen}}

SortInit ==
  /\ p_call \in SortCalls
  /\ p_ret = <<>>
  /\ CacheInit /\ FetchIdle /\ NavInit /\ DiceIdle

CallSortTokenIds ==
  /\ p_call.fn = "sort_token_ids" /\ p_ret = <<>>
  /\ p_ret' = <<sort_token_ids(p_call.ids)>>
  /\ UNCHANGED <<p_call, fetchVars, diceVars, cacheVars, navVars>>

SortNext == CallSortTokenIds

SpecSort == SortInit /\ [][SortNext]_vars
(* -------------------- the token-universe specification ------------------ *)
\* One call of get_collection_token_ids_cached on an empty cache, against
\* an upstream that lists token ids in some order, repeated or not, cut
\* into pages at some places.

\* most token nodes the upstream lists for the collection
MaxTokenNodes == 3

UniverseCalls ==
  {[fn |-> "get_collection_token_ids_cached", cid |-> 1, nodes |-> l, cuts |-> c] :
     l \in UNION {[1..n -> {[tokenId |-> t] : t \in 1..3}] : n \in 0..MaxTokenNodes},
     c \in {c \in CutsOf(MaxTokenNodes) : Increasing(c)}}

UniverseInit ==
  /\ p_call \in {c \in UniverseCalls : \A i \in 1..Len(c.cuts) : c.cuts[i] <= Len(c.nodes)}
  /\ p_ret = <<>>
  /\ CacheInit /\ FetchIdle /\ NavInit /\ DiceIdle

CallTokenIdsCached ==
  LET r == get_collection_token_ids_cached(TOKEN_CACHE, now, p_call.cid, TOKEN_CACHE_MAX_AGE,
                                           FALSE, PagesOf(p_call.nodes, p_call.cuts), 0)
  IN /\ p_call.fn = "get_collection_token_ids_cached" /\ p_ret = <<>>
     /\ TOKEN_CACHE' = r.cache
     /\ p_ret' = <<[ok |-> r.ok, ids |-> r.ids]>>
     /\ UNCHANGED <<p_call, fetchVars, diceVars, OWNED_CACHE, now, epoch, obs, navVars>>

UniverseNext == CallTokenIdsCached

SpecUniverse == UniverseInit /\ [][UniverseNext]_vars
(* ------------------------ the search specification ---------------------- *)
\* One search of findcollection against collection.db and its JSON backup,
\* on a term drawn at the start.

\* most characters of a term made of the letters below
MaxTermLen == 2

\* d, g, s, E, 3, the space, and the two characters LIKE reads as wildcards
\* (_ and %)
TermLetters == {100, 103, 115, 69, 51, 32, 95, 37}

\* " ".join(context.args).strip(): no space at either end of a term
Stripped(t) == t[1] # 32 /\ t[Len(t)] # 32

SearchCalls ==
  {[fn |-> "findcollection", term |-> t] :
     t \in SearchTerms \cup
           {t \in UNION {[1..n -> TermLetters] : n \in 1..MaxTermLen} : Stripped(t)}}

SearchInit ==
  /\ p_call \in SearchCalls
  /\ p_ret = <<>>
  /\ CacheInit /\ FetchIdle /\ NavInit /\ DiceIdle

CallFindMatches ==
  /\ p_call.fn = "findcollection" /\ p_ret = <<>>
  /\ p_ret' = <<find_matches(COLLECTION_DB, p_call.term)>>
  /\ UNCHANGED <<p_call, fetchVars, diceVars, cacheVars, navVars>>

SearchNext == CallFindMatches

SpecSearch == SearchInit /\ [][SearchNext]_vars
(* ----------------------- the snapshot specification --------------------- *)
\* Two users, each with a wallet of their own, search, select collection 1
\* and use the buttons of the progress view while the clock, the ledger
\* and the background tasks move.

\* user 1 links wallet wA, user 2 wallet wB
SnapWallet(u) == IF u = 1 THEN "wA" ELSE "wB"

SnapConnect == \E u \in Users : Quiet /\ USER_ADDRESS[u] = "" /\ Connect(u, SnapWallet(u), TRUE)
SnapFind == \E u \in Users : Quiet /\ user_data[u].find = <<>> /\ FindCollection(u, <<101>>)
SnapSetcol == \E u \in Users : Tap(u, "find") /\ Setcol(u, 1, 0)
SnapSaveView == \E u \in Users : SaveView(u)
SnapStart == \E u \in Users : Quiet /\ Start(u)
SnapPage == \E u \in Users, d \in {-1, 1} : Tap(u, "progress") /\ ProgPage(u, d)
SnapToggle == \E u \in Users : Tap(u, "progress") /\ ProgToggle(u)
SnapRefresh == \E u \in Users, tfa \in NavFailPoints, wfa \in NavFailPoints :
                 Tap(u, "progress") /\ ProgRefresh(u, tfa, wfa)
SnapTaskDone == \E t \in tasks : Quiet /\ TaskDone(t, 0)

SnapshotNext ==
  \/ (SnapConnect /\ UNCHANGED <<fetchVars, diceVars, callVars, COLLECTION_DB, obs>>)
  \/ (SnapFind /\ UNCHANGED <<fetchVars, diceVars, callVars, COLLECTION_DB, obs>>)
  \/ (SnapSetcol /\ UNCHANGED <<fetchVars, diceVars, callVars, COLLECTION_DB, obs>>)
  \/ (SnapSaveView /\ UNCHANGED <<fetchVars, diceVars, callVars, COLLECTION_DB, obs>>)
  \/ (SnapStart /\ UNCHANGED <<fetchVars, diceVars, callVars, COLLECTION_DB, obs>>)
  \/ (SnapPage /\ UNCHANGED <<fetchVars, diceVars, callVars, COLLECTION_DB, obs>>)
  \/ (SnapToggle /\ UNCHANGED <<fetchVars, diceVars, callVars, COLLECTION_DB, obs>>)
  \/ (SnapRefresh /\ UNCHANGED <<fetchVars, diceVars, callVars, COLLECTION_DB, obs>>)
  \/ (SnapTaskDone /\ UNCHANGED <<fetchVars, diceVars, callVars, COLLECTION_DB, obs>>)
  \/ (DoLedgerChange /\ UNCHANGED <<fetchVars, diceVars, callVars>>)
  \/ (Return /\ UNCHANGED <<fetchVars, diceVars, callVars, COLLECTION_DB, obs>>)

SpecSnapshot == Init /\ [][SnapshotNext]_vars
(* ------------------------ the overlap specification --------------------- *)
\* The refresh_owned_cache tasks of the event loop, a request at a time.
\* A task the handlers created is the record [u, addr]; once the loop has
\* run it up to its first await it is a record that also holds the locals
\* of _fetch_owned_map (st) and, for the properties, the number it was
\* started as (id), the tasks under way when it started (peers), and when
\* it returned, its place among the returns (seq) and the clock (end).
\* The user meanwhile links wallets, searches, pages, selects, goes back,
\* closes and disconnects.

\* most refresh tasks the loop starts, and most of them where the user's
\* other actions are followed too
MaxTasks == 2
MaxUserTasks == 1

Started == {t \in tasks : "id" \in DOMAIN t}
Returned == {t \in Started : t.st.status = "done"}

\* the task t up to its next await: the first request is sent, or the
\* response awaited has come (or the request failed) and the next request
\* is sent or, after the last page, _owned_cache_put is called
TaskStep(t, fail, cap) ==
  LET cur == IF "id" \in DOMAIN t THEN t
             ELSE [u |-> t.u, addr |-> t.addr, id |-> Cardinality(Started) + 1,
                   peers |-> {r.id : r \in {x \in Started : x.st.status = "run"}},
                   st |-> FetchStart, seq |-> 0, end |-> 0]
      st1 == OwnedMapStep(cur.st, AccountListing(epoch, cur.addr),
                          IF fail THEN cur.st.n + 1 ELSE 0)
      done == st1.status = "done"
  IN /\ t \in tasks
     /\ IF "id" \in DOMAIN t THEN t.st.status = "run" ELSE Cardinality(Started) < cap
     /\ tasks' = (tasks \ {t}) \cup
                   {[cur EXCEPT !.st = st1,
                                !.seq = IF done THEN Cardinality(Returned) + 1 ELSE 0,
                                !.end = IF done THEN now ELSE 0]}
     /\ OWNED_CACHE' = IF done THEN owned_cache_put(OWNED_CACHE, now, cur.u, st1.owned)
                       ELSE OWNED_CACHE
     /\ UNCHANGED <<USER_ADDRESS, USER_COLLECTION, State, file, walletDb, user_data, pc,
                    shown, ack, TOKEN_CACHE, now, epoch>>

\* the steps of the task started as number i (its first step makes it so)
StepOfTask(i, cap) ==
  /\ \E t \in tasks, fail \in BOOLEAN :
       /\ IF "id" \in DOMAIN t THEN t.id = i ELSE Cardinality(Started) + 1 = i
       /\ TaskStep(t, fail, cap)
  /\ UNCHANGED <<fetchVars, diceVars, callVars, COLLECTION_DB, obs>>

OverlapConnect == \E addr \in Wallets : Quiet /\ USER_ADDRESS[1] # addr /\ Connect(1, addr, TRUE)

\* the tasks alone, under searches that start them, relinking and the clock
OverlapNext ==
  \/ (OverlapConnect /\ UNCHANGED <<fetchVars, diceVars, callVars, COLLECTION_DB, obs>>)
  \/ (DoFindCollection /\ UNCHANGED <<fetchVars, diceVars, callVars, COLLECTION_DB, obs>>)
  \/ (DoSaveView /\ UNCHANGED <<fetchVars, diceVars, callVars, COLLECTION_DB, obs>>)
  \/ (DoTick /\ UNCHANGED <<fetchVars, diceVars, callVars, obs>>)
  \/ (\E i \in 1..MaxTasks : StepOfTask(i, MaxTasks))
  \/ (Return /\ UNCHANGED <<fetchVars, diceVars, callVars, COLLECTION_DB, obs>>)

SpecOverlap == Init /\ [][OverlapNext]_vars

\* the tasks under everything the user does meanwhile
UserConnect == Quiet /\ USER_ADDRESS[1] = "" /\ Connect(1, "wA", TRUE)
UserFind == Quiet /\ FindCollection(1, <<101>>)

UserNext ==
  \/ (UserConnect /\ UNCHANGED <<fetchVars, diceVars, callVars, COLLECTION_DB, obs>>)
  \/ (DoDisconnect /\ UNCHANGED <<fetchVars, diceVars, callVars, COLLECTION_DB, obs>>)
  \/ (UserFind /\ UNCHANGED <<fetchVars, diceVars, callVars, COLLECTION_DB, obs>>)
  \/ (DoSaveView /\ UNCHANGED <<fetchVars, diceVars, callVars, COLLECTION_DB, obs>>)
  \/ (DoFindPage /\ UNCHANGED <<fetchVars, diceVars, callVars, COLLECTION_DB, obs>>)
  \/ (DoSetcol(NavCids) /\ UNCHANGED <<fetchVars, diceVars, callVars, COLLECTION_DB, obs>>)
  \/ (DoProgBack /\ UNCHANGED <<fetchVars, diceVars, callVars, COLLECTION_DB, obs>>)
  \/ (DoClose /\ UNCHANGED <<fetchVars, diceVars, callVars, COLLECTION_DB, obs>>)
  \/ (\E i \in 1..MaxUserTasks : StepOfTask(i, MaxUserTasks))
  \/ (Return /\ UNCHANGED <<fetchVars, diceVars, callVars, COLLECTION_DB, obs>>)

\* The loop resumes a task whose request has ended, and a request ends: it
\* runs in a worker thread with a timeout of 30 seconds.
SpecUserFair ==
  Init /\ [][UserNext]_vars /\ \A i \in 1..MaxUserTasks : WF_vars(StepOfTask(i, MaxUserTasks))

(* -------------------- the empty-universe specification ------------------ *)
\* Selecting collection 1 (tokens) or 2 (none) by a search result,
\* /setcollection and /collections, the toggle and refresh buttons of the
\* progress view, and the end of the process, after which the buttons of
\* the message sent before find no dict in the handler data.
EmptyNext ==
  \/ (DoStart /\ UNCHANGED <<fetchVars, diceVars, callVars, COLLECTION_DB, obs>>)
  \/ (DoSaveView /\ UNCHANGED <<fetchVars, diceVars, callVars, COLLECTION_DB, obs>>)
  \/ (DoConnect /\ UNCHANGED <<fetchVars, diceVars, callVars, COLLECTION_DB, obs>>)
  \/ (DoFindCollection /\ UNCHANGED <<fetchVars, diceVars, callVars, COLLECTION_DB, obs>>)
  \/ (DoSetCollection /\ UNCHANGED <<fetchVars, diceVars, callVars, obs>>)
  \/ (DoCollectionsCmd /\ UNCHANGED <<fetchVars, diceVars, callVars, COLLECTION_DB, obs>>)
  \/ (DoSetcol(SelCids) /\ UNCHANGED <<fetchVars, diceVars, callVars, COLLECTION_DB, obs>>)
  \/ (DoProgToggle /\ UNCHANGED <<fetchVars, diceVars, callVars, COLLECTION_DB, obs>>)
  \/ (DoProgRefresh /\ UNCHANGED <<fetchVars, diceVars, callVars, COLLECTION_DB, obs>>)
  \/ (Restart /\ UNCHANGED <<fetchVars, diceVars, callVars, COLLECTION_DB, obs>>)
  \/ (Return /\ UNCHANGED <<fetchVars, diceVars, callVars, COLLECTION_DB, obs>>)

SpecEmpty == Init /\ [][EmptyNext]_vars
(* ------------------------ the render specification ---------------------- *)
\* One call of a renderer on a dict whose page index runs from below the
\* first page to above the last.

\* how far outside the pages of the list the index is taken
MaxPageOver == 1

RenderMatches(n) == [i \in 1..n |-> <<i, CollectionDb[i]>>]
RenderRows(n) == [i \in 1..n |-> <<i, 13 - i>>]
RenderIds(n) == [i \in 1..n |-> Str(i)]

PagesFor(n, size) == (0 - MaxPageOver)..(TotalPages(n, size) - 1 + MaxPageOver)

RenderPageCalls ==
  {[fn |-> "render_find_page",
    s |-> [term |-> <<101>>, matches |-> RenderMatches(n), page |-> p]] :
     n \in {0, 1, PAGE_SIZE, 12}, p \in PagesFor(12, PAGE_SIZE)}
  \cup
  {[fn |-> "render_owned_page", s |-> [rows |-> RenderRows(n), page |-> p]] :
     n \in {0, 1, OWNED_PAGE_SIZE, 12}, p \in PagesFor(12, OWNED_PAGE_SIZE)}
  \cup
  {[fn |-> "render_progress_page",
    s |-> [cid |-> 1, name |-> CollectionDb[1], ids |-> RenderIds(n), have |-> h,
           page |-> p, mode |-> m, from_find |-> TRUE, from_owned |-> FALSE]] :
     n \in {0, 1, PROGRESS_PAGE_SIZE, 21}, h \in {{}, {Str(3), Str(21)}},
     m \in {"all", "missing", "owned"}, p \in PagesFor(21, PROGRESS_PAGE_SIZE)}

\* what a renderer sends for the dict s, and for the progress view the
\* page it writes back into the dict
RenderOf(fn, s) ==
  IF fn = "render_find_page"
  THEN [view |-> FindView(s), kb |-> build_find_keyboard(s.matches, s.page)]
  ELSE IF fn = "render_owned_page"
  THEN [view |-> OwnedView(s), kb |-> build_owned_keyboard(s.rows, s.page)]
  ELSE [view |-> ProgressView(s), text |-> ProgressText(s), page |-> ProgressPage(s)]

RenderInit ==
  /\ p_call \in RenderPageCalls
  /\ p_ret = <<>>
  /\ CacheInit /\ FetchIdle /\ NavInit /\ DiceIdle

CallRenderPage ==
  /\ p_call.fn \in {"render_find_page", "render_owned_page", "render_progress_page"}
  /\ p_ret = <<>>
  /\ p_ret' = <<RenderOf(p_call.fn, p_call.s)>>
  /\ UNCHANGED <<p_call, fetchVars, diceVars, cacheVars, navVars>>

RenderNext == CallRenderPage

SpecRender == RenderInit /\ [][RenderNext]_vars
(* ------------------------- the reply specification ---------------------- *)
\* One call of safe_reply on an update with a message.  A text is the
\* sequence of the lengths of its lines (text.split("\n")); a chunk is the
\* sequence of the lines joined into one message.

\* the chunk budget the specification runs the loop with, the most lines
\* of a text and the longest line
SmallChunk == 3
MaxLines == 3
MaxLineLen == 4

\* len("\n".join(lines))
JoinedLen(lines) ==
  IF lines = <<>> THEN 0
  ELSE LET RECURSIVE Sum(_)
           Sum(k) == IF k = 0 THEN 0 ELSE Sum(k - 1) + lines[k]
       IN Sum(Len(lines)) + Len(lines) - 1

\* one iteration of the loop over the lines
ChunkStep(st, ln, max_chunk) ==
  IF st.cur + ln + 1 > max_chunk
  THEN [sent |-> Append(st.sent, st.buf), buf |-> <<ln>>, cur |-> ln + 1]
  ELSE [sent |-> st.sent, buf |-> Append(st.buf, ln), cur |-> st.cur + ln + 1]

RECURSIVE ChunkLoop(_, _, _)
ChunkLoop(st, lines, max_chunk) ==
  IF lines = <<>> THEN st
  ELSE ChunkLoop(ChunkStep(st, Head(lines), max_chunk), Tail(lines), max_chunk)

\* the messages safe_reply sends for the text, in order
safe_reply(lines, max_chunk) ==
  IF JoinedLen(lines) <= max_chunk THEN <<lines>>
  ELSE LET st == ChunkLoop([sent |-> <<>>, buf |-> <<>>, cur |-> 0], lines, max_chunk)
       IN IF st.buf # <<>> THEN Append(st.sent, st.buf) ELSE st.sent

ReplyCalls ==
  {[fn |-> "safe_reply", lines |-> l, max_chunk |-> SmallChunk] :
     l \in UNION {[1..n -> 0..MaxLineLen] : n \in 1..MaxLines}}
  \cup
  {[fn |-> "safe_reply", lines |-> l, max_chunk |-> MAX_CHUNK] :
     l \in {<<MAX_CHUNK>>, <<MAX_CHUNK + 1>>, <<MAX_CHUNK - 1, 0>>, <<1000, 2000, 1000>>}}

ReplyInit ==
  /\ p_call \in ReplyCalls
  /\ p_ret = <<>>
  /\ CacheInit /\ FetchIdle /\ NavInit /\ DiceIdle

CallSafeReply ==
  /\ p_call.fn = "safe_reply" /\ p_ret = <<>>
  /\ p_ret' = <<safe_reply(p_call.lines, p_call.max_chunk)>>
  /\ UNCHANGED <<p_call, fetchVars, diceVars, cacheVars, navVars>>

ReplyNext == CallSafeReply

SpecReply == ReplyInit /\ [][ReplyNext]_vars
(* ------------------------- the relink specification --------------------- *)
\* A user links one wallet, then the other, or none, while /mycollections
\* and the select buttons read the ownership cache and refresh tasks end.
RelinkNext ==
  \/ (OverlapConnect /\ UNCHANGED <<fetchVars, diceVars, callVars, COLLECTION_DB, obs>>)
  \/ (DoDisconnect /\ UNCHANGED <<fetchVars, diceVars, callVars, COLLECTION_DB, obs>>)
  \/ (DoFindCollection /\ UNCHANGED <<fetchVars, diceVars, callVars, COLLECTION_DB, obs>>)
  \/ (DoMyCollections /\ UNCHANGED <<fetchVars, diceVars, callVars, COLLECTION_DB, obs>>)
  \/ (DoSetcol(NavCids) /\ UNCHANGED <<fetchVars, diceVars, callVars, COLLECTION_DB, obs>>)
  \/ (DoOwnedSet(NavCids) /\ UNCHANGED <<fetchVars, diceVars, callVars, COLLECTION_DB, obs>>)
  \/ (DoSaveView /\ UNCHANGED <<fetchVars, diceVars, callVars, COLLECTION_DB, obs>>)
  \/ (DoTaskDone /\ UNCHANGED <<fetchVars, diceVars, callVars, COLLECTION_DB, obs>>)
  \/ (DoTick /\ UNCHANGED <<fetchVars, diceVars, callVars, obs>>)
  \/ (Return /\ UNCHANGED <<fetchVars, diceVars, callVars, COLLECTION_DB, obs>>)

SpecRelink == Init /\ [][RelinkNext]_vars
(* ------------------------ the two-user specification -------------------- *)
\* Two users, each with a wallet of their own, link and unlink, select a
\* collection by its id (one with a row in collection.db, one without),
\* search, open the progress view and refresh it (the wallet request may
\* fail), while their background tasks end in any order.

\* the ids /setcollection is given: collection 1, and 13, which has no row
SharedCids == {1, 13}

ByConnect(u) == Quiet /\ USER_ADDRESS[u] = "" /\ Connect(u, SnapWallet(u), TRUE)
ByDisconnect(u) == Quiet /\ USER_ADDRESS[u] # "" /\ Disconnect(u)
BySetCollection(u) == \E cid \in SharedCids : Quiet /\ SetCollection(u, cid)
ByFind(u) == Quiet /\ FindCollection(u, <<101>>)
BySetcol(u) == Tap(u, "find") /\ Setcol(u, 1, 0)
BySaveView(u) == SaveView(u)
ByRefresh(u) == \E wfa \in NavFailPoints : Tap(u, "progress") /\ ProgRefresh(u, 0, wfa)
ByTask(u) == \E t \in tasks : t.u = u /\ Quiet /\ TaskDone(t, 0)

\* a step of a handler or of a background task of user u
StepBy(u) ==
  \/ ByConnect(u) \/ ByDisconnect(u) \/ BySetCollection(u) \/ ByFind(u)
  \/ BySetcol(u) \/ BySaveView(u) \/ ByRefresh(u) \/ ByTask(u)

SharedConnect == \E u \in Users : ByConnect(u)
SharedDisconnect == \E u \in Users : ByDisconnect(u)
SharedSetCollection == \E u \in Users : BySetCollection(u)
SharedFind == \E u \in Users : ByFind(u)
SharedSetcol == \E u \in Users : BySetcol(u)
SharedSaveView == \E u \in Users : BySaveView(u)
SharedRefresh == \E u \in Users : ByRefresh(u)
SharedTask == \E u \in Users : ByTask(u)

SharedNext ==
  \/ (SharedConnect /\ UNCHANGED <<fetchVars, diceVars, callVars, COLLECTION_DB, obs>>)
  \/ (SharedDisconnect /\ UNCHANGED <<fetchVars, diceVars, callVars, COLLECTION_DB, obs>>)
  \/ (SharedSetCollection /\ UNCHANGED <<fetchVars, diceVars, callVars, obs>>)
  \/ (SharedFind /\ UNCHANGED <<fetchVars, diceVars, callVars, COLLECTION_DB, obs>>)
  \/ (SharedSetcol /\ UNCHANGED <<fetchVars, diceVars, callVars, COLLECTION_DB, obs>>)
  \/ (SharedSaveView /\ UNCHANGED <<fetchVars, diceVars, callVars, COLLECTION_DB, obs>>)
  \/ (SharedRefresh /\ UNCHANGED <<fetchVars, diceVars, callVars, COLLECTION_DB, obs>>)
  \/ (SharedTask /\ UNCHANGED <<fetchVars, diceVars, callVars, COLLECTION_DB, obs>>)
  \/ (Return /\ UNCHANGED <<fetchVars, diceVars, callVars, COLLECTION_DB, obs>>)

SpecShared == Init /\ [][SharedNext]_vars
(* ------------------------------ claims --------------------------------- *)
\* C5: get_collection_token_ids_cached returns the stored entry unchanged,
\* without any upstream request, exactly when an entry exists, force is
\* false and now - capturedAt < maxAge; in every other case it asks the
\* upstream and, when that answers, stores and returns the collection's
\* sorted token list with capturedAt = now.
C5_CacheFreshness ==
  [][\A cid \in CacheCids, m \in CacheMaxAges, force \in BOOLEAN, fa \in FailPoints :
       (obs'.op = "token_get" /\ obs'.cid = cid /\ obs'.arg = <<m, force>>
          /\ TokenGet(cid, m, force, fa)) =>
         LET ent == TOKEN_CACHE[cid]
             fresh == ent # <<>> /\ ~force /\ now - ent[1].ts < m
         IN /\ fresh => /\ obs'.nreq = 0 /\ obs'.ok
                        /\ obs'.val = ent[1].ids
                        /\ TOKEN_CACHE' = TOKEN_CACHE
            /\ ~fresh => /\ obs'.nreq > 0
                         /\ obs'.ok => /\ obs'.val = UniverseOf(epoch, cid)
                                       /\ TOKEN_CACHE'[cid] = <<[ids |-> obs'.val, ts |-> now]>>
    ]_vars

\* an entry of collection 1 served from the cache at a positive age
C5_Witness ==
  /\ obs.op = "token_get" /\ obs.hit /\ obs.cid = 1 /\ obs.nreq = 0
  /\ TOKEN_CACHE[1] # <<>> /\ now > TOKEN_CACHE[1][1].ts

\* C6: when the upstream fails at some page of a token universe get or of an
\* ownership refresh, the call raises and both caches are what they were.
C6_FailureKeepsCache ==
  [][/\ \A cid \in CacheCids, m \in CacheMaxAges, force \in BOOLEAN, fa \in FailPoints :
          (obs'.op = "token_get" /\ obs'.cid = cid /\ obs'.arg = <<m, force>>
             /\ TokenGet(cid, m, force, fa)) =>
            /\ (obs'.nreq > 0 /\ fa \in 1..Len(TokenListing(epoch, cid))) => ~obs'.ok
            /\ ~obs'.ok => (TOKEN_CACHE' = TOKEN_CACHE /\ OWNED_CACHE' = OWNED_CACHE)
     /\ \A fa \in FailPoints :
          (obs'.op = "owned_refresh" /\ OwnedRefresh(1, "wA", fa)) =>
            /\ fa \in 1..Len(AccountListing(epoch, "wA")) => ~obs'.ok
            /\ ~obs'.ok => (TOKEN_CACHE' = TOKEN_CACHE /\ OWNED_CACHE' = OWNED_CACHE)
            /\ obs'.ok => OWNED_CACHE'[1] = <<[ts |-> now, owned |-> HoldingsOf(epoch, "wA")]>>
    ]_vars

\* a token universe get that failed at its second page while an older entry
\* of that collection was cached
C6_Witness ==
  /\ obs.op = "token_get" /\ ~obs.ok /\ obs.nreq = 2
  /\ TOKEN_CACHE[obs.cid] # <<>>

RECURSIVE Walk(_, _, _)
\* the pages of a listing in cursor order from page k; a page met twice
\* (the listing never ends) is marked by a final 0
Walk(up, k, seen) ==
  IF k \in seen THEN <<0>>
  ELSE IF ~up[k].hasNextPage THEN <<k>>
  ELSE <<k>> \o Walk(up, up[k].endCursor, seen \cup {k})

Chain(up) == Walk(up, 1, {})
EndsFinitely(up) == \A i \in 1..Len(Chain(up)) : Chain(up)[i] # 0

RECURSIVE EdgesAlong(_, _)
\* the edges of the pages named by pages, concatenated in that order
EdgesAlong(up, pages) ==
  IF pages = <<>> THEN <<>> ELSE up[Head(pages)].edges \o EdgesAlong(up, Tail(pages))

\* the cursors a fetch must send: None, then each page's endCursor but the last's
CursorsAlong(up, pages) ==
  [i \in 1..Len(pages) |-> IF i = 1 THEN 0 ELSE up[pages[i - 1]].endCursor]

\* get_collection_token_ids stays below the page cap before the last page
BelowCap(up, cap) ==
  Len(EdgesAlong(up, SubSeq(Chain(up), 1, Len(Chain(up)) - 1))) < cap

\* C1: on a listing that ends with hasNextPage = false, a finished fetch has
\* requested every page once, in cursor order from cursor None, and its
\* result is the edges of all pages in order (reconciled, for _fetch_owned_map).
C1_FetchExact ==
  (f_st.status = "done" /\ EndsFinitely(f_up)
     /\ (f_kind = "tokens" => BelowCap(f_up, f_cap)))
  => /\ f_st.reqs = CursorsAlong(f_up, Chain(f_up))
     /\ f_kind = "accounts" => f_st.acc = EdgesAlong(f_up, Chain(f_up))
     /\ f_kind = "tokens" => f_st.acc = TokenIdsOf(EdgesAlong(f_up, Chain(f_up)))
     /\ f_kind = "owned_map"
          => f_st.owned = AddHoldings(EmptyMap, EdgesAlong(f_up, Chain(f_up)))

\* a fetch that ended after three pages whose cursor order is not their index order
C1_Witness ==
  /\ f_st.status = "done" /\ EndsFinitely(f_up)
  /\ f_kind = "accounts"
  /\ Chain(f_up) = <<1, 3, 2>> /\ f_st.n = 3


(* --------------- claims on selecting a collection ---------------------- *)
\* the step is the run of a handler, up to its send if it renders
Handled(op, u) == ack' # ack /\ ack'.op = op /\ ack'.u = u

LastView(S, u) == IF S[u] = <<>> THEN "" ELSE S[u][1].last_view

C3_SyncRefresh ==
  [][\A u \in NavUsers, op \in {"setcol", "owned:set", "collections"} :
       (Handled(op, u) /\ ack'.notice = "" /\ USER_ADDRESS[u] # ""
          /\ owned_cache_get(OWNED_CACHE, now, u) = <<>>) =>
         shown'[u][1].have = HaveOf(HoldingsOf(epoch, USER_ADDRESS[u]), shown'[u][1].cid)
    ]_vars

\* C4: a handler that serves the ownership from a fresh cache entry, be it
\* /mycollections or a transition into the Progress view, starts a
\* background refresh for that user.
C4_BackgroundRefresh ==
  [][\A u \in NavUsers, op \in {"mycollections", "setcol", "owned:set", "collections"} :
       (Handled(op, u) /\ ack'.hit) =>
         /\ ack'.bg
         /\ \E t \in tasks' : t.u = u
    ]_vars

(* ---------------- claims on the persisted session ---------------------- *)
\* the view a /start renders from the session records F, as an optional value
ResumeView(F, u) ==
  IF F[u] = <<>> THEN <<>>
  ELSE LET rec == F[u][1]
       IN IF rec.last_view = "progress" /\ rec.progress # <<>>
          THEN <<ProgressView([rec.progress[1] EXCEPT !.have = SetOf(rec.progress[1].have)])>>
          ELSE IF rec.last_view = "find" /\ rec.find # <<>>
          THEN <<FindView(rec.find[1])>>
          ELSE IF rec.last_view = "owned" /\ rec.owned # <<>>
          THEN <<OwnedView(rec.owned[1])>>
          ELSE <<>>

\* C7: the /start that follows a restart renders the view that was rendered
\* last before it: same kind, list or collection, mode, origin and page.
C7_ResumeLastView ==
  [][\A u \in NavUsers :
       (ack.op = "restart" /\ Handled("start", u) /\ shown[u] # <<>>) =>
         shown'[u] = shown[u]
    ]_vars

\* C8: whenever a view has been sent and its handler has not finished yet,
\* the session file already designates that view, so that the end of the
\* process at that moment would resume it.
C8_SavedBeforeShown ==
  \A u \in NavUsers : pc[u] # "idle" => ResumeView(file, u) = shown[u]

(* ------------------------- claims on paging ---------------------------- *)
\* ceil(n / size) - 1, and 0 for an empty list
LastPage(n, size) == IF n = 0 THEN 0 ELSE ((n + size - 1) \div size) - 1

PageSizeOf(kind) == IF kind = "find" THEN PAGE_SIZE
                    ELSE IF kind = "owned" THEN OWNED_PAGE_SIZE ELSE PROGRESS_PAGE_SIZE

\* the dict of a view in the handler data, with its defaults when absent
DictOf(ud, kind) ==
  IF kind = "find" THEN (IF ud.find = <<>> THEN NoFind ELSE ud.find[1])
  ELSE IF kind = "owned" THEN (IF ud.owned = <<>> THEN NoOwned ELSE ud.owned[1])
  ELSE (IF ud.progress = <<>> THEN NoProgress ELSE ud.progress[1])

\* the length of the list a view pages through
CountOf(s, kind) ==
  IF kind = "find" THEN Len(s.matches)
  ELSE IF kind = "owned" THEN Len(s.rows)
  ELSE Len(filter_ids(s.ids, s.have, s.mode))

PagerOp(kind, d) ==
  IF kind = "find" THEN (IF d < 0 THEN "find:prev" ELSE "find:next")
  ELSE IF kind = "owned" THEN (IF d < 0 THEN "owned:prev" ELSE "owned:next")
  ELSE (IF d < 0 THEN "prog:prev" ELSE "prog:next")

\* C9: in each of the three views prev and next move the page index by one
\* when the target lies in [0, lastPage] and render that page, the rest of
\* the view state staying as it was; at a boundary nothing changes: not
\* the view state, not the screen, not the session, not the file.
C9_PageByOne ==
  [][\A u \in NavUsers, kind \in {"find", "owned", "progress"}, d \in {-1, 1} :
       Handled(PagerOp(kind, d), u) =>
         LET s == DictOf(user_data[u], kind)
             target == s.page + d
         IN IF target \in 0..LastPage(CountOf(s, kind), PageSizeOf(kind))
            THEN /\ DictOf(user_data'[u], kind) = [s EXCEPT !.page = target]
                 /\ \A k \in {"find", "owned", "progress"} \ {kind} :
                      DictOf(user_data'[u], k) = DictOf(user_data[u], k)
                 /\ shown'[u] # <<>> /\ shown'[u][1].kind = kind
                 /\ shown'[u][1].page = target
            ELSE /\ user_data' = user_data /\ shown' = shown /\ pc' = pc
                 /\ State' = State /\ file' = file
    ]_vars

\* next moved the Progress view from page 0 to its last page 1, and the
\* session file holds that page
C9_Witness ==
  /\ ack.op = "prog:next" /\ pc[1] = "idle"
  /\ user_data[1].progress # <<>> /\ user_data[1].progress[1].page = 1
  /\ file[1] # <<>> /\ file[1][1].last_view = "progress"
  /\ file[1][1].progress[1].page = 1

\* the length of the list the view on the screen pages through
ShownCount(v) ==
  IF v.kind = "progress" THEN Len(filter_ids(v.ids, v.have, v.mode)) ELSE Len(v.items)

\* C10: every page on the screen was rendered with an index in
\* [0, lastPage] of its (filtered) list.
C10_PageInRange ==
  \A u \in NavUsers :
    shown[u] # <<>> =>
      shown[u][1].page \in 0..LastPage(ShownCount(shown[u][1]), PageSizeOf(shown[u][1].kind))

\* a refresh whose wallet request failed rendered the shrunken collection
\* (20 tokens, one page) while the view stood on page 1 before
C10_Witness ==
  /\ ack.op = "prog:refresh" /\ ack.tokreq = 2 /\ ack.walreq = 1
  /\ shown[1] # <<>> /\ shown[1][1].kind = "progress"
  /\ Len(shown[1][1].ids) = 20 /\ shown[1][1].mode = "all" /\ shown[1][1].page = 0
  /\ file[1] # <<>> /\ file[1][1].progress # <<>> /\ file[1][1].progress[1].page = 1
  /\ pc[1] = "save_progress"

(* ---------------------- claims on the progress view ---------------------- *)
\* the progress dict a prog: handler reads: context.user_data.get("progress") or {}
ProgressDict(ud) == IF ud.progress = <<>> THEN NoProgress ELSE ud.progress[1]

\* C11: prog:toggle takes the mode All to Missing, Missing to Owned and
\* Owned to All, so three applications of next_mode give the mode back,
\* and every toggle leaves the dict and the view sent on page 0.
C11_ToggleCycle ==
  [][\A u \in NavUsers :
       Handled("prog:toggle", u) =>
         LET m == ProgressDict(user_data[u]).mode
             s2 == user_data'[u].progress
         IN /\ m \in {"all", "missing", "owned"}
            /\ s2 # <<>>
            /\ s2[1].mode = (CASE m = "all" -> "missing"
                               [] m = "missing" -> "owned"
                               [] m = "owned" -> "all")
            /\ next_mode(next_mode(next_mode(m))) = m
            /\ s2[1].page = 0
            /\ shown'[u] # <<>>
            /\ shown'[u][1].kind = "progress"
            /\ shown'[u][1].mode = s2[1].mode
            /\ shown'[u][1].page = 0]_vars

\* a toggle from Owned back to All: the session still holds the Owned view
\* written before the tap, the dict and the view sent are on page 0
C11_Witness ==
  /\ ack.op = "prog:toggle"
  /\ pc[1] = "save_progress"
  /\ shown[1] # <<>> /\ shown[1][1].kind = "progress"
  /\ shown[1][1].mode = "all" /\ shown[1][1].page = 0
  /\ State[1] # <<>> /\ State[1][1].progress # <<>>
  /\ State[1][1].progress[1].mode = "owned"
  /\ user_data[1].progress # <<>> /\ user_data[1].progress[1].page = 0

\* how the upstream answered the requests of a prog:refresh of user u:
\* "none" when the dict holds no collection, "failed" when a request of
\* the try block raised, "ok" when every request was answered
RefreshOutcome(u, tokFailAt, walFailAt) ==
  LET cid == ProgressDict(user_data[u]).cid
      addr == USER_ADDRESS[u]
      r == get_collection_token_ids_cached(TOKEN_CACHE, now, cid, 0, TRUE,
                                           TokenListing(epoch, cid), tokFailAt)
      w == get_wallet_owned_by_collection(AccountListing(epoch, addr), walFailAt)
  IN IF cid = 0 THEN "none"
     ELSE IF ~r.ok \/ (addr # "" /\ ~w.ok) THEN "failed"
     ELSE "ok"

\* C12: a prog:refresh that the upstream answers fetches the token universe
\* again (force) and stores it, replaces the ownership cache entry of the
\* user by the holdings of the linked wallet fetched now, and leaves the
\* dict on page 0 with that universe and those holdings.
C12_RefreshReplacesCaches ==
  [][\A u \in NavUsers, tfa \in NavFailPoints, wfa \in NavFailPoints :
       (Handled("prog:refresh", u) /\ USER_ADDRESS[u] # ""
          /\ RefreshOutcome(u, tfa, wfa) = "ok" /\ ProgRefresh(u, tfa, wfa)) =>
         LET cid == ProgressDict(user_data[u]).cid
             s2 == user_data'[u].progress[1]
         IN /\ ack'.tokreq > 0
            /\ TOKEN_CACHE'[cid] = <<[ids |-> UniverseOf(epoch, cid), ts |-> now]>>
            /\ s2.ids = UniverseOf(epoch, cid)
            /\ s2.have = HaveOf(HoldingsOf(epoch, USER_ADDRESS[u]), cid)
            /\ s2.page = 0
            /\ OWNED_CACHE'[u] = <<[ts |-> now, owned |-> HoldingsOf(epoch, USER_ADDRESS[u])]>>
    ]_vars

\* C13: a prog:refresh during which an upstream request fails tells the
\* user so: the reply carries a notice and is not the plain view.
C13_RefreshFailureNoticed ==
  [][\A u \in NavUsers, tfa \in NavFailPoints, wfa \in NavFailPoints :
       (Handled("prog:refresh", u)
          /\ RefreshOutcome(u, tfa, wfa) = "failed" /\ ProgRefresh(u, tfa, wfa)) =>
         ack'.notice # ""
    ]_vars

(* ------------------------ claims on back and close ----------------------- *)
\* the find and owned dicts the session of u holds
StoredFind(S, u) == IF S[u] = <<>> THEN <<>> ELSE S[u][1].find
StoredOwned(S, u) == IF S[u] = <<>> THEN <<>> ELSE S[u][1].owned

\* C14: prog:back in a progress view entered from a search result sends the
\* find view of the term, matches and page the session holds, as they are;
\* prog:back_owned in one entered from the owned list sends the owned view
\* the session holds; in a progress view entered from neither, prog:back
\* and prog:back_owned change nothing and the progress view stays.
C14_BackByOrigin ==
  [][\A u \in NavUsers :
       LET s == ProgressDict(user_data[u])
       IN /\ (Handled("prog:back", u) /\ s.from_find) =>
               /\ StoredFind(State, u) # <<>>
               /\ shown'[u] = <<FindView(StoredFind(State, u)[1])>>
               /\ user_data'[u].find = StoredFind(State, u)
               /\ StoredFind(State', u) = StoredFind(State, u)
          /\ (Handled("prog:back_owned", u) /\ s.from_owned) =>
               /\ StoredOwned(State, u) # <<>>
               /\ shown'[u] = <<OwnedView(StoredOwned(State, u)[1])>>
               /\ user_data'[u].owned = StoredOwned(State, u)
               /\ StoredOwned(State', u) = StoredOwned(State, u)
          /\ ((Handled("prog:back", u) \/ Handled("prog:back_owned", u))
                /\ ~s.from_find /\ ~s.from_owned) =>
               UNCHANGED <<shown, user_data, pc, State, file>>
    ]_vars

\* the name of the Close button of a view
CloseOp(kind) == IF kind = "find" THEN "find:close"
                 ELSE IF kind = "owned" THEN "owned:close" ELSE "prog:close"

\* the dict of the view of that kind the session of u holds
StoredView(S, u, kind) == IF S[u] = <<>> THEN <<>> ELSE S[u][1][kind]

\* C15 as stated: after find:close, owned:close or prog:close the last-view
\* pointer is empty, in memory and in the file, so that the next /start
\* resumes nothing, and the dict of the closed view is still in the session.
C15_CloseClearsPointer ==
  [][\A u \in NavUsers, kind \in {"find", "owned", "progress"} :
       Handled(CloseOp(kind), u) =>
         /\ LastView(State', u) = ""
         /\ LastView(file', u) = ""
         /\ ResumeView(State', u) = <<>>
         /\ StoredView(State', u, kind) = StoredView(State, u, kind)
    ]_vars

\* C15: a close of the view the last-view pointer names empties the pointer
\* and writes the session, so that the next /start resumes nothing, and
\* the dict of the closed view stays in the session; a close of a view the
\* pointer does not name leaves the pointer, the dicts and the file as
\* they are.
C15_CloseDesignated ==
  [][\A u \in NavUsers, kind \in {"find", "owned", "progress"} :
       Handled(CloseOp(kind), u) =>
         /\ StoredView(State', u, kind) = StoredView(State, u, kind)
         /\ LastView(State, u) = kind =>
              /\ LastView(State', u) = ""
              /\ file' = State'
              /\ ResumeView(State', u) = <<>>
         /\ LastView(State, u) # kind =>
              /\ LastView(State', u) = LastView(State, u)
              /\ ResumeView(State', u) = ResumeView(State, u)
              /\ file' = file
    ]_vars

\* the search results closed while they were the last view: the pointer is
\* empty and written, the find dict is still in the session
C15_Witness ==
  /\ ack.op = "find:close"
  /\ LastView(State, 1) = "" /\ file = State
  /\ StoredView(State, 1, "find") # <<>>
  /\ StoredView(State, 1, "owned") # <<>>
  /\ user_data[1].find = <<>>

(* ------------------ claims on what a view puts on screen ------------------ *)
\* the keyboard sent with the view v
KeyboardOf(v) ==
  IF v.kind = "find" THEN build_find_keyboard(v.items, v.page)
  ELSE IF v.kind = "owned" THEN build_owned_keyboard(v.items, v.page)
  ELSE build_progress_keyboard(v.from_find, v.from_owned)

\* the full list the view v pages through
ListOf(v) == IF v.kind = "progress" THEN filter_ids(v.ids, v.have, v.mode) ELSE v.items

\* the tokens or collections of the rows sent with the view v
RowsOf(v) ==
  IF v.kind = "progress"
  THEN LET t == ProgressText(v) IN [i \in 1..Len(t.lines) |-> t.lines[i].tid]
  ELSE LET kb == KeyboardOf(v) IN [i \in 1..Len(kb.rows) |-> kb.rows[i].data]

\* what a row of the view v is about: a token id, or a collection id
KeyOf(v, item) == IF v.kind = "progress" THEN item ELSE item[1]

\* C16: every view on screen has a Prev button exactly when its page is
\* above 0 and a Next button exactly when (page+1)*pageSize is below the
\* length of its list, and its rows are the items of the list from
\* page*pageSize up to min((page+1)*pageSize, length).
C16_ControlsMatchPage ==
  \A u \in NavUsers :
    shown[u] # <<>> =>
      LET v == shown[u][1]
          kb == KeyboardOf(v)
          size == PageSizeOf(v.kind)
          items == ListOf(v)
          lo == v.page * size
          hi == Min((v.page + 1) * size, Len(items))
      IN /\ kb.prev <=> v.page > 0
         /\ kb.next <=> (v.page + 1) * size < Len(items)
         /\ Len(RowsOf(v)) = (IF hi > lo THEN hi - lo ELSE 0)
         /\ \A i \in 1..Len(RowsOf(v)) : RowsOf(v)[i] = KeyOf(v, items[lo + i])

(* --------------------- claims on the progress text ----------------------- *)
\* the k-th smallest element of the set I of naturals
Kth(I, k) == CHOOSE i \in I : Cardinality({j \in I : j < i}) = k - 1

\* r lists, in the order of ids, exactly the entries of ids at the indices I
KeepsOrder(r, ids, I) ==
  /\ Len(r) = Cardinality(I)
  /\ \A k \in 1..Len(r) : r[k] = ids[Kth(I, k)]

\* C17: for a universe list and an ownership set, the "missing" and the
\* "owned" lists of filter_ids share no token and together hold the tokens
\* of the universe, the "all" list is the universe, and each list keeps
\* the order of the universe.
C17_FilterPartition ==
  (p_call.fn = "filter_ids" /\ p_ret # <<>>) =>
    LET ids == p_call.ids
        have == p_call.have
        r == p_ret[1]
    IN /\ SetOf(r.missing) \cap SetOf(r.owned) = {}
       /\ SetOf(r.missing) \cup SetOf(r.owned) = SetOf(ids)
       /\ r.all = ids
       /\ KeepsOrder(r.missing, ids, {i \in 1..Len(ids) : ids[i] \notin have})
       /\ KeepsOrder(r.owned, ids, {i \in 1..Len(ids) : ids[i] \in have})

\* the universe 2, 1, 3 against a wallet holding 1 and a token outside it
C17_Witness ==
  /\ p_call.fn = "filter_ids" /\ p_ret # <<>>
  /\ p_call.ids = <<Str(2), Str(1), Str(3)>>
  /\ p_call.have = {Str(1), Str(9)}
  /\ p_ret[1].missing = <<Str(2), Str(3)>>
  /\ p_ret[1].owned = <<Str(1)>>

\* the rows render_progress_page shows for the dict s on the pages p..last
RECURSIVE RowsFrom(_, _)
RowsFrom(s, p) ==
  IF p >= ProgressText(s).total_pages THEN 0
  ELSE Len(ProgressText([s EXCEPT !.page = p]).lines) + RowsFrom(s, p + 1)

Abs(x) == IF x < 0 THEN -x ELSE x

\* the counts, the rows and their marks of the text t sent for the dict s
ProgressCountsOk(s, t) ==
  LET U == SetOf(s.ids)
  IN /\ t.have_count = Cardinality(U \cap s.have)
     /\ t.total_all = Cardinality(U)
     /\ RowsFrom(s, 0) = (CASE s.mode = "all" -> Cardinality(U)
                            [] s.mode = "missing" -> Cardinality(U \ s.have)
                            [] s.mode = "owned" -> Cardinality(U \cap s.have))
     /\ \A i \in 1..Len(t.lines) : t.lines[i].owned <=> t.lines[i].tid \in s.have
     /\ (s.ids = [i \in 1..10 |-> Str(i)] /\ s.have = {Str(3), Str(7)}) =>
          /\ RowsFrom(s, 0) = (CASE s.mode = "all" -> 10 [] s.mode = "missing" -> 8
                                 [] s.mode = "owned" -> 2)
          /\ t.overall_pct = 2000

\* C18 as stated: the owned count is the number of universe tokens in the
\* ownership snapshot, the rows are the universe in All, the universe
\* minus the snapshot in Missing and their intersection in Owned, a row is
\* marked owned exactly when its token is in the snapshot, and the
\* percentage is 100 * ownedCount / |universe| (in hundredths: times 10000).
C18_ProgressExactPercent ==
  (p_call.fn = "render_progress_page" /\ p_ret # <<>>) =>
    LET t == p_ret[1]
    IN /\ ProgressCountsOk(p_call.s, t)
       /\ t.total_all > 0 => t.overall_pct * t.total_all = 10000 * t.have_count

\* C18: the counts, rows and marks as above, and the percentage is
\* 100 * ownedCount / |universe| rounded to the nearest hundredth, and 0 for
\* an empty universe.
C18_ProgressCounts ==
  (p_call.fn = "render_progress_page" /\ p_ret # <<>>) =>
    LET t == p_ret[1]
    IN /\ ProgressCountsOk(p_call.s, t)
       /\ t.total_all = 0 => t.overall_pct = 0
       /\ t.total_all > 0 =>
            2 * Abs(t.overall_pct * t.total_all - 10000 * t.have_count) <= t.total_all

\* universe 1..10 against owned {3, 7} in the Missing mode: 8 rows, none of
\* them marked, 2 of 10 owned, 20.00 percent
C18_Witness ==
  /\ p_call.fn = "render_progress_page" /\ p_ret # <<>>
  /\ p_call.s.ids = [i \in 1..10 |-> Str(i)]
  /\ p_call.s.have = {Str(3), Str(7)}
  /\ p_call.s.mode = "missing"
  /\ Len(p_ret[1].lines) = 8
  /\ \A i \in 1..8 : ~p_ret[1].lines[i].owned
  /\ p_ret[1].have_count = 2 /\ p_ret[1].total_all = 10
  /\ p_ret[1].overall_pct = 2000

(* ------------------- claims on the ownership reconciler ------------------ *)
\* balance + reservedBalance of a record, a null or absent field being 0
Effective(n) ==
  (IF n.balance = <<>> THEN 0 ELSE n.balance[1])
    + (IF n.reservedBalance = <<>> THEN 0 ELSE n.reservedBalance[1])

\* the collections and tokens the pool of records speaks of
PoolCids == {n.collectionId : n \in HoldingPool}
PoolTids == {n.tokenId : n \in HoldingPool}

\* C19: the map either reconciler returns holds token t under collection c
\* exactly when some record of (c, t) has balance + reservedBalance > 0,
\* null fields counting 0; a collection is a key of the map only when it
\* has such a record, and no key maps to the empty set.
C19_OwnedIffPositive ==
  (p_call.fn \in {"_fetch_owned_map", "get_wallet_owned_by_collection"} /\ p_ret # <<>>) =>
    LET M == p_ret[1]
        rs == p_call.records
        Positive(c, t) == \E i \in 1..Len(rs) :
                            /\ rs[i].collectionId = c /\ rs[i].tokenId = t
                            /\ Effective(rs[i]) > 0
    IN /\ DOMAIN M \subseteq PoolCids
       /\ \A c \in PoolCids :
            /\ c \in DOMAIN M <=> \E t \in PoolTids : Positive(c, t)
            /\ c \in DOMAIN M =>
                 /\ M[c] \subseteq {Str(t) : t \in PoolTids}
                 /\ \A t \in PoolTids : Str(t) \in M[c] <=> Positive(c, t)

\* token 3 of collection 1 with a zero record only, token 5 held by its
\* reserved balance, collection 2 with a record of null fields only
C19_Witness ==
  /\ p_call.fn = "_fetch_owned_map" /\ p_ret # <<>>
  /\ p_call.records = <<Holding(1, 3, <<0>>, <<>>), Holding(1, 5, <<>>, <<2>>),
                        Holding(2, 1, <<>>, <<>>)>>
  /\ p_call.cuts = <<1>>
  /\ DOMAIN p_ret[1] = {1}
  /\ p_ret[1][1] = {Str(5)}

\* the orders of a list of records
OrdersOf(rs) ==
  {[i \in 1..Len(rs) |-> rs[p[i]]] :
     p \in {q \in [1..Len(rs) -> 1..Len(rs)] : \A a, b \in 1..Len(rs) : a # b => q[a] # q[b]}}

\* C20: the map one reconciler returns for a list of records is the map
\* the other reconciler returns for the same records in any order, cut
\* into pages at any places; so all the maps either of them returns for
\* orders and pagings of the same records are one map.
C20_OrderAndPagesFree ==
  (p_call.fn \in {"_fetch_owned_map", "get_wallet_owned_by_collection"} /\ p_ret # <<>>) =>
    \A rs \in OrdersOf(p_call.records) :
      \A c \in {c \in CutsOf(Len(rs)) : Increasing(c)} :
        IF p_call.fn = "_fetch_owned_map"
        THEN get_wallet_owned_by_collection(PagesOf(rs, c), 0).owned = p_ret[1]
        ELSE fetch_owned_map(PagesOf(rs, c), 0).owned = p_ret[1]

\* three records on three pages, two collections in the map
C20_Witness ==
  /\ p_call.fn = "get_wallet_owned_by_collection" /\ p_ret # <<>>
  /\ p_call.records = <<Holding(2, 3, <<2>>, <<1>>), Holding(1, 5, <<>>, <<2>>),
                        Holding(1, 3, <<1>>, <<0>>)>>
  /\ p_call.cuts = <<1, 2>>
  /\ DOMAIN p_ret[1] = {1, 2}
  /\ p_ret[1][1] = {Str(3), Str(5)}
  /\ p_ret[1][2] = {Str(3)}

(* ------------------------- claims on the sort --------------------------- *)
\* how often x occurs in the list l
Count(l, x) == Cardinality({i \in 1..Len(l) : l[i] = x})

\* a <= b of two strings in code point order
StrLeq(a, b) == a = b \/ StrLess(a, b)

\* C21: sort_token_ids returns a permutation of its input in which every
\* all-digit id stands before every other id, the all-digit ids ascend by
\* their value ("9" before "10") and the other ids ascend as strings;
\* sorting the result again returns it unchanged.
C21_SortOrder ==
  (p_call.fn = "sort_token_ids" /\ p_ret # <<>>) =>
    LET r == p_ret[1]
        ids == p_call.ids
    IN /\ sort_token_ids(r) = r
       /\ Len(r) = Len(ids)
       /\ \A x \in SetOf(ids) \cup SetOf(r) : Count(r, x) = Count(ids, x)
       /\ \A i \in 1..Len(r), j \in 1..Len(r) :
            i < j =>
              /\ IsDigit(r[j]) => IsDigit(r[i])
              /\ (IsDigit(r[i]) /\ IsDigit(r[j])) => IntOf(r[i]) <= IntOf(r[j])
              /\ (~IsDigit(r[i]) /\ ~IsDigit(r[j])) => StrLeq(r[i], r[j])
       /\ (ids = <<Str(10), Str(9)>>) => r = <<Str(9), Str(10)>>

\* "a", "10", "9" sorted: 9, 10, a
C21_Witness ==
  /\ p_call.fn = "sort_token_ids" /\ p_ret # <<>>
  /\ p_call.ids = <<<<97>>, Str(10), Str(9)>>
  /\ p_ret[1] = <<Str(9), Str(10), <<97>>>>

(* -------------------- claims on the token universe ----------------------- *)
\* C22: a token list get_collection_token_ids returns is never longer than
\* its page cap, whatever the sizes of the pages the upstream returns.
C22_WithinPageCap ==
  (f_kind = "tokens" /\ f_st.status = "done") => Len(f_st.acc) <= f_cap

\* no entry of the list l occurs twice
NoDuplicates(l) == \A i \in 1..Len(l), j \in 1..Len(l) : l[i] = l[j] => i = j

\* C23: the list get_collection_token_ids_cached stores in the cache and
\* returns (the universe a progress view then holds) has no token id
\* twice, also when the upstream lists an id on two pages or twice on one.
C23_NoDuplicateIds ==
  (p_call.fn = "get_collection_token_ids_cached" /\ p_ret # <<>> /\ p_ret[1].ok) =>
    /\ NoDuplicates(p_ret[1].ids)
    /\ TOKEN_CACHE[p_call.cid] # <<>>
    /\ NoDuplicates(TOKEN_CACHE[p_call.cid][1].ids)

(* --------------------------- claims on search ---------------------------- *)
\* C24: a /findcollection without a match leaves no view on screen and a
\* last-view pointer that names no view to resume; one with matches sends
\* the find view of that term, those matches and page 0, and the write
\* that follows records it as the last view.
C24_SearchOutcome ==
  [][\A u \in NavUsers :
       /\ (Handled("find", u) /\ ack'.notice = "no_match") =>
            /\ shown'[u] = <<>>
            /\ ResumeView(State', u) = <<>>
            /\ ResumeView(file', u) = <<>>
       /\ (Handled("find", u) /\ ack'.notice # "no_match") =>
            /\ shown'[u] # <<>>
            /\ shown'[u][1].kind = "find"
            /\ shown'[u][1].items # <<>>
            /\ shown'[u][1].items = find_matches(COLLECTION_DB, shown'[u][1].term)
            /\ shown'[u][1].page = 0
            /\ user_data'[u].find =
                 <<[term |-> shown'[u][1].term, matches |-> shown'[u][1].items, page |-> 0]>>
            /\ pc'[u] = "save_find"
       /\ (ack.op = "find" /\ ack.u = u /\ pc[u] = "save_find" /\ SaveView(u)) =>
            /\ LastView(State', u) = "find"
            /\ StoredFind(State', u) = user_data[u].find
            /\ file' = State'
    ]_vars

\* the term occurs in the name at some place, letters compared without case
IsSubstring(term, name) ==
  \E i \in 0..(Len(name) - Len(term)) :
    \A j \in 1..Len(term) : Lower(term[j]) = Lower(name[i + j])

\* C25: the matches of a search are the entries of the name index whose
\* name contains the term without regard to case, each once and no other
\* ("drag" finds Dragon Eggs alone).
C25_SearchExact ==
  (p_call.fn = "findcollection" /\ p_ret # <<>>) =>
    /\ SetOf(p_ret[1]) = {<<c, CollectionDb[c]>> : c \in {c \in Cids :
                                               IsSubstring(p_call.term, CollectionDb[c])}}
    /\ NoDuplicates(p_ret[1])
    /\ p_call.term = <<100, 114, 97, 103>> => p_ret[1] = <<<<1, CollectionDb[1]>>>>

(* ---------------------- claims on snapshot isolation -------------------- *)
\* the step is the handler op answering user u
StepOf(op, u) == ack = NoAck /\ ack'.op = op /\ ack'.u = u

\* the two snapshots of the progress dict d
Snapshots(d) == <<d.ids, d.have>>

\* C26: while a user's progress view stays entered, its universe and
\* ownership snapshots change in no step but that user's own Refresh: not
\* by paging, the filter toggle or /start, not by a background ownership
\* refresh ending, not by the ledger or by another user's forced refresh of
\* the token universe.
C26_SnapshotIsolation ==
  [][\A u \in Users :
       (/\ user_data[u].progress # <<>>
        /\ user_data'[u].progress # <<>>
        /\ ~StepOf("prog:refresh", u)
        /\ ~StepOf("setcol", u))
       => Snapshots(user_data'[u].progress[1]) = Snapshots(user_data[u].progress[1])]_vars

\* User 2 has just forced a refresh that shortened the cached universe of
\* collection 1, and user 1's ownership entry was filled by a task after
\* user 1 entered the view: user 1's dict still holds the 21 ids and the
\* empty ownership it was built with.
C26_Witness ==
  /\ ack.op = "prog:refresh" /\ ack.u = 2
  /\ user_data[1].progress # <<>>
  /\ Len(user_data[1].progress[1].ids) = 21
  /\ TOKEN_CACHE[1] # <<>> /\ Len(TOKEN_CACHE[1][1].ids) = 20
  /\ user_data[1].progress[1].have = {}
  /\ OWNED_CACHE[1] # <<>> /\ HaveOf(OWNED_CACHE[1][1].owned, 1) # {}

(* ------------------------ claims on refresh tasks ----------------------- *)
\* the cache entry the returned task t wrote
EntryOf(t) == <<[ts |-> t.end, owned |-> t.st.owned]>>

\* the tasks of user u that returned, and the one of them that returned last
ReturnedOf(u) == {t \in Returned : t.u = u}
LastReturned(u) == CHOOSE t \in ReturnedOf(u) : \A r \in ReturnedOf(u) : r.seq <= t.seq

\* C27: whenever refresh tasks of a user have returned, overlapping or not,
\* the user's ownership entry is, whole, the map and the timestamp of the
\* task that returned last.
C27_LastCompletionWins ==
  \A u \in Users :
    ReturnedOf(u) # {} => OWNED_CACHE[u] = EntryOf(LastReturned(u))

\* Two tasks of user 1 ran at the same time on different wallets and both
\* returned; the one started first returned last, at a later time, and the
\* entry holds its map.
C27_Witness ==
  \E a, b \in ReturnedOf(1) :
    /\ a.id = 1 /\ b.id = 2 /\ 1 \in b.peers
    /\ a.seq = 2 /\ b.seq = 1
    /\ a.st.owned # b.st.owned /\ a.end # b.end
    /\ OWNED_CACHE[1] = EntryOf(a)

\* the task started as number i is under way
TaskRunning(i) == \E t \in Started : t.id = i /\ t.st.status = "run"

\* it has ended: a request of it failed, or it returned and its map and
\* timestamp are the user's ownership entry
TaskSettled(i) ==
  \E t \in Started :
    /\ t.id = i
    /\ \/ t.st.status = "error"
       \/ t.st.status = "done" /\ OWNED_CACHE[t.u] = EntryOf(t)

\* C28: a refresh task under way is dropped by nothing the user does
\* later (paging, back, close, a new search, disconnecting): it goes on
\* until a request of it fails or it has written its result into the
\* user's ownership entry.
C28_TaskRunsToItsEnd ==
  \A i \in 1..MaxUserTasks : [](TaskRunning(i) => <>TaskSettled(i))

\* A task created before the user disconnected has returned after it and
\* its result is the entry of the user, who has no address any more.
C28_Witness ==
  /\ ack.op = "disconnect" /\ USER_ADDRESS[1] = ""
  /\ \E t \in ReturnedOf(1) : t.seq = Cardinality(Returned) /\ OWNED_CACHE[1] = EntryOf(t)
  /\ \A t \in Started : t.st.status # "run"

(* ---------------------- claims on the empty universe -------------------- *)
\* the header counts of the progress view v on the screen
HeaderOf(v) ==
  ProgressText([ids |-> v.ids, have |-> v.have, mode |-> v.mode, page |-> v.page])

\* C29: a selection (setcol: or /collections) of a collection without
\* tokens that got past the wallet test and the fetch ends with the notice
\* "no tokens": no progress dict is written, the screen keeps what it
\* showed, nothing awaits a save and the session keeps its progress dict
\* and last-view pointer, in memory and in the file; and a progress view
\* on the screen whose universe is empty shows 0 of 0 owned and 0 percent.
C29_EmptyUniverse ==
  [][\A u \in NavUsers :
       /\ ((Handled("setcol", u) \/ Handled("collections", u))
           /\ UniverseSize(epoch, ack'.cid) = 0
           /\ ack'.notice \notin {"not_linked", "no_collection", "fetch_failed"})
          => /\ ack'.notice = "no_tokens"
             /\ user_data'[u] = user_data[u]
             /\ shown'[u] = shown[u]
             /\ pc'[u] = "idle"
             /\ StoredView(State', u, "progress") = StoredView(State, u, "progress")
             /\ LastView(State', u) = LastView(State, u)
             /\ StoredView(file', u, "progress") = StoredView(file, u, "progress")
             /\ LastView(file', u) = LastView(file, u)
       /\ (shown'[u] # <<>> /\ shown'[u][1].kind = "progress" /\ shown'[u][1].ids = <<>>)
          => /\ HeaderOf(shown'[u][1]).overall_pct = 0
             /\ HeaderOf(shown'[u][1]).have_count = 0
             /\ HeaderOf(shown'[u][1]).total_all = 0]_vars

\* /collections on collection 2 has just answered with the notice, and
\* the screen still shows a progress view with an empty universe, which a
\* button of a message sent before the process ended produced from no dict.
C29_Witness ==
  /\ ack.op = "collections" /\ ack.cid = 2 /\ ack.notice = "no_tokens"
  /\ shown[1] # <<>> /\ shown[1][1].kind = "progress" /\ shown[1][1].ids = <<>>
  /\ HeaderOf(shown[1][1]).overall_pct = 0

(* ---------------------- claims on the pagination clamp ------------------ *)
\* the list the renderer fn pages through, and its last page
PagedList(fn, s) ==
  IF fn = "render_find_page" THEN s.matches
  ELSE IF fn = "render_owned_page" THEN s.rows
  ELSE filter_ids(s.ids, s.have, s.mode)

PageSizeFor(fn) ==
  IF fn = "render_find_page" THEN PAGE_SIZE
  ELSE IF fn = "render_owned_page" THEN OWNED_PAGE_SIZE
  ELSE PROGRESS_PAGE_SIZE

LastPageFor(fn, s) == TotalPages(Len(PagedList(fn, s)), PageSizeFor(fn)) - 1

\* the boundary index nearest to p
Nearest(p, last) == IF p < 0 THEN 0 ELSE IF p > last THEN last ELSE p

\* the items a renderer put on the screen
ItemsOf(fn, r) == IF fn = "render_progress_page" THEN r.text.lines ELSE r.kb.rows

RECURSIVE Flatten(_)
Flatten(chunks) == IF chunks = <<>> THEN <<>> ELSE Head(chunks) \o Flatten(Tail(chunks))

\* the chunks, joined in order, are the lines of the text in order
KeepsLines(lines, chunks) == Flatten(chunks) = lines

\* C31: for a text longer than the chunk budget every message safe_reply
\* sends is non-empty and at most the budget long, and the messages in
\* order hold every line of the text once, in the order of the text.
C31_ChunksBounded ==
  (p_call.fn = "safe_reply" /\ p_ret # <<>>
   /\ JoinedLen(p_call.lines) > p_call.max_chunk)
  => /\ \A i \in 1..Len(p_ret[1]) :
          /\ p_ret[1][i] # <<>>
          /\ JoinedLen(p_ret[1][i]) > 0
          /\ JoinedLen(p_ret[1][i]) <= p_call.max_chunk
     /\ KeepsLines(p_call.lines, p_ret[1])

(* ------------------------- claims on disconnecting ---------------------- *)
\* the handlers that need a wallet
WalletOps == {"collections", "mycollections", "setcol", "owned:set"}

\* C32: while a user has no linked address (before the first /connect and
\* from a /disconnect to the next /connect), /collections, /mycollections
\* and the select buttons answer with the not-linked notice and issue no
\* wallet request, and no handler of the user starts an ownership refresh.
C32_UnlinkedAfterDisconnect ==
  [][\A u \in NavUsers :
       (USER_ADDRESS[u] = "" /\ ack = NoAck /\ ack' # NoAck /\ ack'.u = u
        /\ ack'.op # "connect")
       => /\ ack'.op \in WalletOps
             => (ack'.notice = "not_linked" /\ ack'.walreq = 0 /\ ack'.tokreq = 0)
          /\ tasks' = tasks
          /\ ~ack'.bg]_vars

(* --------------------------- claims on relinking ------------------------ *)
\* C33: whenever a handler serves a user's ownership from the cache
\* (/mycollections, setcol:, owned:set:), the map served is the holdings of
\* the wallet linked to the user at that moment, also after a /disconnect
\* or a /connect to another wallet and when a refresh started for the
\* earlier wallet ends after it.
C33_ServedFromLinkedWallet ==
  [][\A u \in NavUsers :
       (ack = NoAck /\ ack' # NoAck /\ ack'.u = u /\ ack'.hit)
       => /\ USER_ADDRESS[u] # ""
          /\ owned_cache_get(OWNED_CACHE, now, u) = <<HoldingsOf(epoch, USER_ADDRESS[u])>>]_vars

(* ----------------------- claims on taps after a restart ----------------- *)
\* the progress dict p stored in a session is one of a collection
RealProgress(p) == p # <<>> /\ p[1].cid # 0

\* C34: a progress record of a collection stored in the session, in memory
\* and in the file, is never replaced by a dict without a collection,
\* whatever button of a message sent before the process ended is tapped
\* before the next /start.
C34_StoredProgressKept ==
  [][\A u \in NavUsers :
       /\ RealProgress(StoredView(State, u, "progress"))
          => RealProgress(StoredView(State', u, "progress"))
       /\ RealProgress(StoredView(file, u, "progress"))
          => RealProgress(StoredView(file', u, "progress"))]_vars

(* ---------------------- claims on a failed refresh ---------------------- *)
\* C35: a prog:refresh during which the token fetch or the wallet fetch
\* fails leaves the universe, the ownership, the name and the page of the
\* progress dict as they were before the tap.
C35_RefreshAllOrNothing ==
  [][\A u \in NavUsers, tfa \in NavFailPoints, wfa \in NavFailPoints :
       (Handled("prog:refresh", u) /\ user_data[u].progress # <<>>
          /\ RefreshOutcome(u, tfa, wfa) = "failed" /\ ProgRefresh(u, tfa, wfa)) =>
         LET s == user_data[u].progress[1]
             t == user_data'[u].progress[1]
         IN /\ t.ids = s.ids
            /\ t.have = s.have
            /\ t.name = s.name
            /\ t.page = s.page
    ]_vars

(* ------------------------ claims on two users ---------------------------- *)
\* what belongs to user v: the session record, the linked wallet and the
\* selected collection, the view state and the view on the screen, the
\* Ownership Cache entry, the stored wallet and the tasks started for v
Untouched(v) ==
  /\ State'[v] = State[v]
  /\ USER_ADDRESS'[v] = USER_ADDRESS[v]
  /\ USER_COLLECTION'[v] = USER_COLLECTION[v]
  /\ walletDb'[v] = walletDb[v]
  /\ user_data'[v] = user_data[v]
  /\ shown'[v] = shown[v]
  /\ pc'[v] = pc[v]
  /\ OWNED_CACHE'[v] = OWNED_CACHE[v]
  /\ {t \in tasks' : t.u = v} = {t \in tasks : t.u = v}

\* C36 (as amended): a step of a handler or of a background task of one
\* user leaves the session record, the view state and the Ownership Cache
\* entry of every other user as they were.
C36_OtherUserUntouched ==
  [][\A u \in Users : StepBy(u) => \A v \in Users \ {u} : Untouched(v)]_vars

\* C36 (as stated): moreover such a step changes nothing else that the
\* handlers of another user read, the Token Universe Cache apart: the rows
\* of collection.db stay as they were.
C36_OnlyUniverseShared ==
  [][\A u \in Users : StepBy(u) =>
        /\ \A v \in Users \ {u} : Untouched(v)
        /\ COLLECTION_DB' = COLLECTION_DB
    ]_vars

\* user 1 refreshed the progress view while user 2 has a stored progress
\* view, a view state and an Ownership Cache entry of their own
C36_Witness ==
  /\ ack.op = "prog:refresh" /\ ack.u = 1
  /\ State[2] # <<>> /\ State[2][1].progress # <<>>
  /\ user_data[2].progress # <<>>
  /\ OWNED_CACHE[1] # <<>> /\ OWNED_CACHE[2] # <<>>
  /\ OWNED_CACHE[1][1].owned # OWNED_CACHE[2][1].owned

(* ----------------------- claims on termination -------------------------- *)
\* The loop is about to send a request it has sent before, with locals that
\* decide its continuation as they were then (the token fetch has gathered
\* nothing): against an upstream that answers as before it goes round for ever.
GoesRound ==
  /\ f_st.status = "run"
  /\ \E i \in 1..Len(f_st.reqs) : f_st.reqs[i] = f_st.after
  /\ f_kind = "tokens" => f_st.acc = <<>>

\* C37: no paginated fetch goes round for ever, whatever the upstream lists:
\* pages that keep reporting hasNextPage = true, empty pages, a cursor
\* returned again.
C37_FetchTerminates == ~GoesRound

(* ----------------------- claims on the dice service --------------------- *)
RollsOf(u, d) == {r \in rolls : r.telegram_id = u /\ r.date_utc = d}

\* C38: no user has more than MAX_DAILY rows of rolls on one UTC day, and
\* every /roll answered with a roll reports rolls_left of at least 0,
\* whatever the interleaving of the requests, the clock and midnight.
C38_DailyLimit ==
  /\ \A u \in DiceUsers, d \in 1..MaxDays : Cardinality(RollsOf(u, d)) <= MaxDaily
  /\ \A i \in 1..MaxCalls :
       (roll_calls[i].pc = "done" /\ roll_calls[i].status = 200)
         => roll_calls[i].body.rolls_left >= 0

\* two requests of one user that overlapped: one was answered with the
\* last roll of the day, the other failed on the index taken
C38_Witness ==
  /\ Cardinality(RollsOf(1, utc.day)) = MaxDaily
  /\ roll_calls[1].pc = "done" /\ roll_calls[1].status = 200
  /\ roll_calls[1].body.rolls_left = 0
  /\ roll_calls[2].pc = "done" /\ roll_calls[2].status = 500

\* C39: the requests of a user that carry one idempotency key record at
\* most one roll, and those of them answered with a roll are answered
\* with the same one, whether they follow each other or overlap.
C39_IdempotentKey ==
  \A u \in DiceUsers, k \in IdemKeys \ {""} :
    /\ Cardinality({r \in rolls : r.telegram_id = u /\ r.key = k}) <= 1
    /\ \A i \in 1..MaxCalls, j \in 1..MaxCalls :
         (/\ roll_calls[i].pc = "done" /\ roll_calls[j].pc = "done"
          /\ roll_calls[i].uid = u /\ roll_calls[j].uid = u
          /\ roll_calls[i].key = k /\ roll_calls[j].key = k
          /\ roll_calls[i].status = 200 /\ roll_calls[j].status = 200)
           => roll_calls[i].body = roll_calls[j].body
=============================================================================
